---- MODULE Spec2Model ----
(***************************************************************************)
(* ChannelPacker: texture-set resolution and channel-packing engine.       *)
(*                                                                         *)
(* The module models src/channel_packer.py with its helpers in             *)
(* src/utils.py, src/settings.py and src/backend/.  Python strings are TLA+ *)
(* strings handled character by character (Head, Tail, SubSeq, Len, \o),   *)
(* so that lower(), strip(), split(".") and the regular expressions of the *)
(* source are computed, not assumed.                                       *)
(*                                                                         *)
(* Specifications:                                                         *)
(*   SpecModes    _validate_packing_modes on configured PACKING_MODES      *)
(*   SpecBuild    _build_texture_sets on the files of one folder           *)
(*   SpecResolve  the per-set loop of channel_packer: mode qualification   *)
(*                and target-resolution choice                             *)
(*   SpecGen      _generate_channel_packed_texture for one (set, mode)     *)
(*   SpecEndToEnd validation, set building, the per-set loop and the       *)
(*                generation of one folder                                 *)
(*   SpecRun      a whole run from _validate_config on, with the file      *)
(*                listing and _preselect_required_textures                 *)
(***************************************************************************)
EXTENDS Integers, Sequences, FiniteSets, TLC

VARIABLES
    pc,                     \* position of the modelled run
    config_modes,           \* PACKING_MODES as loaded from config.json
    PACKING_MODES,          \* the same list, as mutated in place by validation
    valid_packing_modes,    \* result of _validate_packing_modes
    disk,                   \* the image files of the input folder, by path
    initial_files,          \* files_in_group: the folder's selected file names
    raw_textures,           \* result of _build_texture_sets: set key -> TextureSet
    RESIZE_STRATEGY,        \* settings.RESIZE_STRATEGY, as read from config.json
    set_position,           \* position of the per-set loop in raw_textures.items()
    valid_packing_modes_with_maps,  \* the set's ValidModeEntry list
    mode_position,          \* position of the mode loop (line 139) in that list
    is_valid,               \* result of the last resolution check (line 142)
    target_resolution,      \*   and the resolution it returned
    expected_texture_resolution,    \* mode name -> chosen target resolution
    invalid_mode_names_for_set,     \* names of the modes found invalid
    invalid_resolution_for_summary, \* mode name -> resolution reported invalid
    backup_directory,       \* make_output_dirs' second result, "" for None
    gen_position,           \* position of the generation loop (line 228)
    gen_target,             \* _generate_channel_packed_texture: target_resolution
    heap,                   \* the images the call has created; a handle is an index
    loaded_textures,        \*   loaded_textures: type -> handle, 0 for None
    channel_images,         \*   channels: handles, 0 for None
    packed_texture,         \*   packed_texture: handle, 0 for None
    missing_texture_maps,   \*   missing_texture_maps
    loop_position,          \*   position of the loop the call is in
    raised,                 \*   the exception that left the try block, "" for none
    filename,               \* what the call returned, "" for None
    open_failures,          \* the types whose open_image raised in the call
    outputs,                \* what the save collaborator has persisted
    FILE_TYPE,              \* settings.FILE_TYPE
    TARGET_FOLDER_NAME,     \* settings.TARGET_FOLDER_NAME
    BACKUP_FOLDER_NAME,     \* settings.BACKUP_FOLDER_NAME
    export_extension,       \* context.export_extension
    folder_files,           \* the image files the input folder holds, sorted
    files_listed,           \* list_initial_files has been called
    selection_paths_map,    \* the keys of context.selection_paths_map
    pre_skipped_texture_sets_summary,   \* display name -> files reported skipped
    created_directories,    \* the directories make_output_dirs has created
    DELETE_USED,            \* settings.DELETE_USED
    textures_to_scale,      \* the last result of _list_textures_to_scale
    suffix_mismatch_buffer, \* the set's suffix_mismatch_buffer
    log_lines               \* the summary lines handed to the reporting collaborator

modeVars == <<config_modes, PACKING_MODES, valid_packing_modes>>

buildVars == <<disk, initial_files, raw_textures>>

settingVars == <<RESIZE_STRATEGY, FILE_TYPE, TARGET_FOLDER_NAME, BACKUP_FOLDER_NAME,
                 export_extension, folder_files, files_listed, selection_paths_map,
                 pre_skipped_texture_sets_summary, created_directories, DELETE_USED>>

reportVars == <<textures_to_scale, suffix_mismatch_buffer, log_lines>>

setupVars == <<settingVars, reportVars>>

resolveVars == <<setupVars, set_position, valid_packing_modes_with_maps,
                 mode_position, is_valid, target_resolution,
                 expected_texture_resolution, invalid_mode_names_for_set,
                 invalid_resolution_for_summary>>

genVars == <<backup_directory, gen_position, gen_target, heap, loaded_textures,
             channel_images, packed_texture, missing_texture_maps, loop_position,
             raised, filename, open_failures, outputs>>

vars == <<pc, modeVars, buildVars, resolveVars, genVars>>

(***************************************************************************)
(* Python string primitives                                                *)
(***************************************************************************)
Ch(s, i) == SubSeq(s, i, i)

UpperChars == "ABCDEFGHIJKLMNOPQRSTUVWXYZ"
LowerChars == "abcdefghijklmnopqrstuvwxyz"
DigitChars == "0123456789"

\* s.find(c) + 1 for a single character c (0 when absent)
IndexIn(c, s) ==
    IF \E i \in 1..Len(s) : Ch(s, i) = c
    THEN CHOOSE i \in 1..Len(s) : Ch(s, i) = c /\ \A j \in 1..(i-1) : Ch(s, j) # c
    ELSE 0

UpperSet == { Ch(UpperChars, i) : i \in 1..Len(UpperChars) }
LowerSet == { Ch(LowerChars, i) : i \in 1..Len(LowerChars) }
DigitSet == { Ch(DigitChars, i) : i \in 1..Len(DigitChars) }

LowerOf == [c \in UpperSet |-> Ch(LowerChars, IndexIn(c, UpperChars))]
UpperOf == [c \in LowerSet |-> Ch(UpperChars, IndexIn(c, LowerChars))]

LowerCh(c) == IF c \in UpperSet THEN LowerOf[c] ELSE c

UpperCh(c) == IF c \in LowerSet THEN UpperOf[c] ELSE c

\* str.lower()
RECURSIVE Lower(_)
Lower(s) == IF s = "" THEN "" ELSE LowerCh(Head(s)) \o Lower(Tail(s))

\* str.upper()
RECURSIVE Upper(_)
Upper(s) == IF s = "" THEN "" ELSE UpperCh(Head(s)) \o Upper(Tail(s))

\* the character class [a-z0-9] under re.IGNORECASE
IsAlnumCh(c) == c \in LowerSet \/ c \in UpperSet \/ c \in DigitSet

\* the character class [._]
IsDotOrUnderscore(c) == c \in {".", "_"}

RECURSIVE LStrip(_)
LStrip(s) == IF s # "" /\ Head(s) = " " THEN LStrip(Tail(s)) ELSE s

RECURSIVE RStrip(_)
RStrip(s) ==
    IF s # "" /\ Ch(s, Len(s)) = " " THEN RStrip(SubSeq(s, 1, Len(s) - 1)) ELSE s

\* str.strip()
Strip(s) == RStrip(LStrip(s))

\* s.split(".")[0]
SplitDotFirst(s) ==
    LET i == IndexIn(".", s) IN IF i = 0 THEN s ELSE SubSeq(s, 1, i - 1)

RECURSIVE AlnumPrefixLen(_)
AlnumPrefixLen(s) ==
    IF s # "" /\ IsAlnumCh(Head(s)) THEN 1 + AlnumPrefixLen(Tail(s)) ELSE 0

(***************************************************************************)
(* settings.py                                                             *)
(***************************************************************************)
\* TEXTURE_CONFIG, in dictionary order; "default": (kind, fill)
TEXTURE_CONFIG ==
    << [name |-> "AO", suffixes |-> <<"ambientocclusion", "occlusion", "ambient", "ao">>,
        kind |-> "G", fill |-> 255],
       [name |-> "Roughness", suffixes |-> <<"roughness", "roughnes", "rough", "r">>,
        kind |-> "G", fill |-> 128],
       [name |-> "Metalness", suffixes |-> <<"metalness", "metalnes", "metallic", "metal", "m">>,
        kind |-> "G", fill |-> 0],
       [name |-> "Height", suffixes |-> <<"displacement", "height", "disp", "d", "h">>,
        kind |-> "G", fill |-> 0],
       [name |-> "Mask", suffixes |-> <<"opacity", "alpha", "mask">>,
        kind |-> "G", fill |-> 255],
       [name |-> "Translucency", suffixes |-> <<"translucency", "translucent", "trans", "t">>,
        kind |-> "G", fill |-> 0],
       [name |-> "Specular", suffixes |-> <<"specular", "spec", "s">>,
        kind |-> "G", fill |-> 128],
       [name |-> "Normal", suffixes |-> <<"normal_dx", "normal_gl", "normaldx", "normalgl", "normalgl", "normal", "nor_dx", "nor_gl", "norm", "nrm", "n">>,
        kind |-> "RGB", fill |-> 128],
       [name |-> "BendNormal", suffixes |-> <<"bend_normal", "bendnormal", "bn">>,
        kind |-> "RGB", fill |-> 128],
       [name |-> "Bump", suffixes |-> <<"bump", "bp">>,
        kind |-> "G", fill |-> 128],
       [name |-> "Albedo", suffixes |-> <<"basecolor", "diffuse", "albedo", "color", "diff", "base", "a", "b">>,
        kind |-> "RGB", fill |-> 128],
       [name |-> "SSS", suffixes |-> <<"subsurface", "sss">>,
        kind |-> "G", fill |-> 0],
       [name |-> "Emissive", suffixes |-> <<"emissive", "emission", "emit", "glow">>,
        kind |-> "RGB", fill |-> 0],
       [name |-> "Glossiness", suffixes |-> <<"glossiness", "gloss", "gl">>,
        kind |-> "G", fill |-> 128] >>

\* TEXTURE_CONFIG.keys()
ConfigKeys == { TEXTURE_CONFIG[i].name : i \in 1..Len(TEXTURE_CONFIG) }

\* the keys lowered, position by position
ConfigKeysLower == [i \in 1..Len(TEXTURE_CONFIG) |-> Lower(TEXTURE_CONFIG[i].name)]

\* next(config for name, config in TEXTURE_CONFIG.items() if name.lower() == lowered):
\* index of the first entry whose key matches case-insensitively, 0 for None
ConfigIndexCI(lowered) ==
    LET hits == { i \in 1..Len(TEXTURE_CONFIG) : ConfigKeysLower[i] = lowered } IN
    IF hits = {} THEN 0 ELSE CHOOSE i \in hits : \A j \in hits : i <= j

\* TEXTURE_CONFIG[key]: index of the entry whose key is exactly `key`,
\* 0 when the subscript raises KeyError
ConfigIndexExact(key) ==
    IF \E i \in 1..Len(TEXTURE_CONFIG) : TEXTURE_CONFIG[i].name = key
    THEN CHOOSE i \in 1..Len(TEXTURE_CONFIG) : TEXTURE_CONFIG[i].name = key
    ELSE 0

ChannelNames == <<"R", "G", "B", "A">>

(***************************************************************************)
(* _validate_packing_modes                                                 *)
(***************************************************************************)
\* re.match(r"([a-z0-9]+)([._]?[rgb]?)$", s, re.IGNORECASE): group 1 is greedy,
\* so it takes the whole alphanumeric prefix; what follows must be nothing,
\* one separator, or one separator and one of r, g, b.
MatchChannelValue(s) ==
    LET p    == AlnumPrefixLen(s)
        rest == SubSeq(s, p + 1, Len(s))
    IN  [ matched |-> /\ p > 0
                      /\ \/ rest = ""
                         \/ Len(rest) = 1 /\ IsDotOrUnderscore(rest)
                         \/ /\ Len(rest) = 2
                            /\ IsDotOrUnderscore(Ch(rest, 1))
                            /\ LowerCh(Ch(rest, 2)) \in {"r", "g", "b"},
          group1 |-> SubSeq(s, 1, p),
          group2 |-> rest ]

\* One iteration of "for channel in (R, G, B, A)": what becomes of the slot.
\*   status "skip": empty Alpha, nothing stored;  "exit": sys.exit(1);
\*   status "ok":   normalized_channels[channel] = value
NormalizeChannelValue(channel, channel_value) ==
    IF channel_value = ""
    THEN [status |-> IF channel = "A" THEN "skip" ELSE "exit", value |-> ""]
    ELSE
      LET match == MatchChannelValue(Strip(channel_value)) IN
      IF ~match.matched THEN [status |-> "exit", value |-> ""]
      ELSE
        LET texture_name == Lower(match.group1)
            channel_component_specifier == Lower(match.group2)
            ci == ConfigIndexCI(texture_name)
        IN
        IF ci = 0 THEN [status |-> "exit", value |-> ""]
        ELSE
          LET texture_type == TEXTURE_CONFIG[ci].kind IN
          IF Upper(texture_type) = "RGB"
          THEN IF channel_component_specifier = ""
               THEN IF channel \in {"R", "G", "B"}
                    THEN [status |-> "ok",
                          value  |-> texture_name \o "." \o Lower(channel)]
                    ELSE [status |-> "exit", value |-> ""]
               ELSE [status |-> "ok", value |-> channel_value]
          ELSE IF Upper(texture_type) = "G"
          THEN [status |-> "ok",
                value  |-> IF channel_component_specifier # ""
                           THEN texture_name ELSE channel_value]
          ELSE [status |-> "ok", value |-> channel_value]

\* Slot values a configuration may hold ("" stands for a missing or empty key)
SlotValues ==
    { "", "AO", "Roughness", "roughness.g", "Height_R", "Metalness.",
      "Normal", "Normal.r", "Normal_R", "Normal.", "normal_", "Normalr",
      "Normal.a", "Normal..r", "Emissive_b", "Foo", " Albedo.g " }

\* every slot value the configurations of the specifications hold
KnownSlotValues ==
    SlotValues \cup { "normal", "Normal.g", "Normal_B", "Normal_G", "Metalness",
                      "Albedo.r", "Albedo.g", "Albedo.b" }

\* The normalisation of a slot is a pure function of slot and value: its
\* results for the known values are computed once.
NormalizedSlotOf ==
    [c \in {"R", "G", "B", "A"}, v \in KnownSlotValues |-> NormalizeChannelValue(c, v)]

NormalizeChannel(channel, channel_value) ==
    IF channel_value \in KnownSlotValues THEN NormalizedSlotOf[channel, channel_value]
    ELSE NormalizeChannelValue(channel, channel_value)

NoChannels == [c \in {"R", "G", "B", "A"} |-> ""]

\* normalized_channels[channel] = value, when the slot yields one
StoreNormalized(acc, channel, r) ==
    IF r.status = "ok" THEN [acc EXCEPT ![channel] = r.value] ELSE acc

\* The channel loop of one named mode, slots R, G, B, A in order, stopping
\* at the first sys.exit.  A slot never stored reads back as "" (dict.get).
RECURSIVE NormalizeChannelsFrom(_, _, _)
NormalizeChannelsWith(channels, k, acc, r) ==
    IF r.status = "exit" THEN [exit |-> TRUE, channels |-> acc]
    ELSE NormalizeChannelsFrom(channels, k + 1, StoreNormalized(acc, ChannelNames[k], r))

NormalizeChannelsFrom(channels, k, acc) ==
    IF k > Len(ChannelNames) THEN [exit |-> FALSE, channels |-> acc]
    ELSE NormalizeChannelsWith(channels, k, acc,
            NormalizeChannel(ChannelNames[k], channels[ChannelNames[k]]))

\* mode["channels"] = normalized_channels
WithChannels(mode, channels) == [mode EXCEPT !.channels = channels]

\* The mode loop.  Result: exit (sys.exit was called), valid (the returned
\* list), modes (PACKING_MODES after the in-place "mode[channels] = ...").
RECURSIVE ValidateModesFrom(_, _, _)
ValidateModeWith(modes, i, valid, n) ==
    IF n.exit THEN [exit |-> TRUE, valid |-> valid, modes |-> modes]
    ELSE ValidateModesFrom([modes EXCEPT ![i] = WithChannels(@, n.channels)], i + 1,
                           Append(valid, WithChannels(modes[i], n.channels)))

ValidateModesFrom(modes, i, valid) ==
    IF i > Len(modes) THEN [exit |-> FALSE, valid |-> valid, modes |-> modes]
    ELSE IF Strip(modes[i].mode_name) = "" THEN ValidateModesFrom(modes, i + 1, valid)
    ELSE ValidateModeWith(modes, i, valid,
                          NormalizeChannelsFrom(modes[i].channels, 1, NoChannels))

ValidatePackingModes(modes) == ValidateModesFrom(modes, 1, <<>>)

(***************************************************************************)
(* _strip_channel_specifier, _required_base_texture_map_types_for_mode,    *)
(* _extract_mode_name                                                      *)
(***************************************************************************)
\* re.sub(r'[._]([rgba])$', '', name, flags=re.IGNORECASE).lower()
StripSpecifierAndLower(name) ==
    LET n == Len(name) IN
    IF /\ n >= 2
       /\ IsDotOrUnderscore(Ch(name, n - 1))
       /\ LowerCh(Ch(name, n)) \in {"r", "g", "b", "a"}
    THEN Lower(SubSeq(name, 1, n - 2))
    ELSE Lower(name)

\* the slot values of the specifications, before and after normalisation
KnownReferences ==
    KnownSlotValues \cup
    { NormalizedSlotOf[c, v].value : c \in {"R", "G", "B", "A"}, v \in KnownSlotValues }

StrippedOf == [v \in KnownReferences |-> StripSpecifierAndLower(v)]

StripChannelSpecifier(name) ==
    IF name \in KnownReferences THEN StrippedOf[name] ELSE StripSpecifierAndLower(name)

\* {_strip_channel_specifier(v).lower() for v in channels.values() if v}
RequiredBaseTextureMapTypesForMode(packing_mode) ==
    { Lower(StripChannelSpecifier(packing_mode.channels[c])) :
        c \in { d \in {"R", "G", "B", "A"} : packing_mode.channels[d] # "" } }

\* first_letter of _extract_mode_name: base[0].upper()
FirstLetterUpper(base) == UpperCh(Ch(base, 1))

\* derived_prefix after a slot of base type `base`
AddFirstLetter(unique_map_types, derived_prefix, base) ==
    IF base \in unique_map_types THEN derived_prefix
    ELSE derived_prefix \o FirstLetterUpper(base)

\* the slot loop of _extract_mode_name, R, G, B, A in order
RECURSIVE DerivePrefix(_, _, _, _)
DerivePrefixWith(channels, k, unique_map_types, derived_prefix, base) ==
    DerivePrefix(channels, k + 1, unique_map_types \cup {base},
                 AddFirstLetter(unique_map_types, derived_prefix, base))

DerivePrefix(channels, k, unique_map_types, derived_prefix) ==
    IF k > Len(ChannelNames) THEN derived_prefix
    ELSE IF channels[ChannelNames[k]] = ""
    THEN DerivePrefix(channels, k + 1, unique_map_types, derived_prefix)
    ELSE DerivePrefixWith(channels, k, unique_map_types, derived_prefix,
                          StripChannelSpecifier(channels[ChannelNames[k]]))

\* _extract_mode_name: the custom suffix when there is one, else the first
\* letters of the distinct base types in slot order R, G, B, A
ExtractModeName(packing_mode) ==
    IF Strip(packing_mode.custom_suffix) # "" THEN Strip(packing_mode.custom_suffix)
    ELSE DerivePrefix(packing_mode.channels, 1, {}, "")

(***************************************************************************)
(* utils.py: detect_size_suffix, match_suffixes                            *)
(***************************************************************************)
\* settings.SIZE_SUFFIXES
SIZE_SUFFIXES == <<"512", "1k", "2k", "4k", "8k", "">>

\* sorted([s.lower() for s in SIZE_SUFFIXES if s], key=len, reverse=True):
\* the sort is stable, so "512" comes first and the two-letter tokens keep
\* their order
NormalizedSizeSuffixes == <<"512", "1k", "2k", "4k", "8k">>

\* the character class [\._\-]
IsSeparatorCh(c) == c \in {".", "_", "-"}

StartsWith(s, t) == Len(s) >= Len(t) /\ SubSeq(s, 1, Len(t)) = t

\* s[i:] for a 1-based i
From(s, i) == SubSeq(s, i, Len(s))

\* r is <separator><alnum+> up to its end
IsSepThenAlnumToEnd(r) ==
    Len(r) >= 2 /\ IsSeparatorCh(Head(r)) /\ AlnumPrefixLen(Tail(r)) = Len(r) - 1

\* the tail of alt_pattern after the token: (?:-[a-z0-9]+)?(?=[\._\-][a-z0-9]+$)
AltTailMatches(r) ==
    \/ IsSepThenAlnumToEnd(r)
    \/ /\ r # "" /\ Head(r) = "-"
       /\ LET k == AlnumPrefixLen(Tail(r)) IN
            k >= 1 /\ IsSepThenAlnumToEnd(From(r, k + 2))

\* first element of a non-empty set of integers
MinOf(S) == CHOOSE x \in S : \A y \in S : x <= y

DetectSizeSuffix(name) ==
    LET low  == Lower(name)
        n    == Len(low)
        toks == NormalizedSizeSuffixes
        \* pattern: separator, token, end of string
        endTok == { k \in 1..Len(toks) :
                      /\ n >= Len(toks[k]) + 1
                      /\ From(low, n - Len(toks[k]) + 1) = toks[k]
                      /\ IsSeparatorCh(Ch(low, n - Len(toks[k]))) }
        \* alt_pattern at position i with token k
        altAt(i, k) == /\ IsSeparatorCh(Ch(low, i))
                       /\ StartsWith(From(low, i + 1), toks[k])
                       /\ AltTailMatches(From(low, i + 1 + Len(toks[k])))
        altPos == { i \in 1..n : \E k \in 1..Len(toks) : altAt(i, k) }
    IN  IF endTok # {} THEN toks[MinOf(endTok)]
        ELSE IF altPos = {} THEN ""
        ELSE LET i == MinOf(altPos) IN
             toks[MinOf({ k \in 1..Len(toks) : altAt(i, k) })]

\* r (a suffix of the name, from a candidate match start) matches
\*   <sep> first (?:<sep>[A-Za-z0-9]+)? <sep> second $
TwoTokenSuffixMatches(r, first, second) ==
    /\ Len(r) >= 1 /\ IsSeparatorCh(Head(r))
    /\ StartsWith(Tail(r), first)
    /\ LET rest == From(r, Len(first) + 2)
           endsIt(x) == Len(x) = Len(second) + 1 /\ IsSeparatorCh(Head(x))
                        /\ Tail(x) = second
       IN  \/ endsIt(rest)
           \/ /\ Len(rest) >= 2 /\ IsSeparatorCh(Head(rest))
              /\ LET k == AlnumPrefixLen(Tail(rest)) IN
                   k >= 1 /\ endsIt(From(rest, k + 2))

\* r matches <sep> type_suffix $
OnlyTypeSuffixMatches(r, type_suffix) ==
    Len(r) = Len(type_suffix) + 1 /\ IsSeparatorCh(Head(r)) /\ Tail(r) = type_suffix

\* (variant) the shape with the alias alone is tried first
MatchSuffixesAliasOnlyFirst(name_lower, type_suffix, size_suffix) ==
    LET n  == Len(name_lower)
        p1 == IF size_suffix = "" THEN {}
              ELSE { i \in 1..n : TwoTokenSuffixMatches(From(name_lower, i), type_suffix, size_suffix) }
        p2 == IF size_suffix = "" THEN {}
              ELSE { i \in 1..n : TwoTokenSuffixMatches(From(name_lower, i), size_suffix, type_suffix) }
        p3 == { i \in 1..n : OnlyTypeSuffixMatches(From(name_lower, i), type_suffix) }
    IN  IF p3 # {} THEN p3 ELSE IF p1 # {} THEN p1 ELSE p2

\* match_suffixes followed by regex.search(file_name).start(): the positions
\* (1-based) where the pattern match_suffixes returns matches; {} when it
\* returns None.  The name is compared lowered (re.IGNORECASE).
MatchSuffixes(name_lower, type_suffix, size_suffix) ==
    LET n  == Len(name_lower)
        p1 == IF size_suffix = "" THEN {}
              ELSE { i \in 1..n : TwoTokenSuffixMatches(From(name_lower, i), type_suffix, size_suffix) }
        p2 == IF size_suffix = "" THEN {}
              ELSE { i \in 1..n : TwoTokenSuffixMatches(From(name_lower, i), size_suffix, type_suffix) }
        p3 == { i \in 1..n : OnlyTypeSuffixMatches(From(name_lower, i), type_suffix) }
    IN  IF p1 # {} THEN p1 ELSE IF p2 # {} THEN p2 ELSE p3

(***************************************************************************)
(* _extract_info_from_texture_set_name                                     *)
(***************************************************************************)
\* last index of character c in s, 0 when absent
LastIndexIn(c, s) ==
    LET hits == { i \in 1..Len(s) : Ch(s, i) = c } IN
    IF hits = {} THEN 0 ELSE CHOOSE i \in hits : \A j \in hits : j <= i

\* os.path.splitext(p)[0] for a bare file name
SplitExtRoot(file_path) ==
    LET i == LastIndexIn(".", file_path) IN
    IF i <= 1 THEN file_path ELSE SubSeq(file_path, 1, i - 1)

\* str.rstrip("_-.")
RECURSIVE RStripSeparators(_)
RStripSeparators(s) ==
    IF s # "" /\ IsSeparatorCh(Ch(s, Len(s)))
    THEN RStripSeparators(SubSeq(s, 1, Len(s) - 1)) ELSE s

\* all (type, alias) pairs in configuration order: <<type index, alias index>>
AliasOrder ==
    LET RECURSIVE Walk(_, _)
        Walk(t, a) ==
            IF t > Len(TEXTURE_CONFIG) THEN <<>>
            ELSE IF a > Len(TEXTURE_CONFIG[t].suffixes) THEN Walk(t + 1, 1)
            ELSE <<<<t, a>>>> \o Walk(t, a + 1)
    IN Walk(1, 1)

NoInfo == [matched |-> FALSE, texture_set_name |-> "", texture_type |-> "",
           declared_suffix |-> "", original_filename |-> ""]

MatchTextureSetName(file_path) ==
    LET file_name       == SplitExtRoot(file_path)
        file_name_lower == Lower(file_name)
        size_suffix     == DetectSizeSuffix(file_name)
        starts(k) == MatchSuffixes(file_name_lower,
                        Lower(TEXTURE_CONFIG[AliasOrder[k][1]].suffixes[AliasOrder[k][2]]),
                        size_suffix)
        hits == { k \in 1..Len(AliasOrder) : starts(k) # {} }
    IN  IF hits = {} THEN NoInfo
        ELSE LET k == MinOf(hits)
                 start == MinOf(starts(k))
             IN [matched |-> TRUE,
                 texture_set_name  |-> RStripSeparators(SubSeq(file_name, 1, start - 1)),
                 texture_type      |-> Lower(TEXTURE_CONFIG[AliasOrder[k][1]].name),
                 declared_suffix   |-> Lower(size_suffix),
                 original_filename |-> file_name]

\* os.path.join(input_folder, file)
JoinPath(folder, file) == folder \o "/" \o file

\* os.path.basename(path)
Basename(path) == From(path, LastIndexIn("/", path) + 1)

InputFolder == "tex"

\* File names of a folder, in the order sorted() gives them
FilePool ==
    << "Logo.png", "Rock_2K_Normal.png", "Wall_Albedo_4K.png", "Wall_Albedo_512.png",
       "Wall_Diffuse.png", "Wall_Metalness.png", "Wall_Normal.png",
       "Wall_Roughness_2K.png", "wall_AO.png", "Wall_nor_gl.png",
       "Wall_r_rough_2K.png" >>

\* The matcher is a pure function of the name: its results for the names the
\* specifications use are computed once.
KnownFileNames ==
    { FilePool[i] : i \in 1..Len(FilePool) }
      \cup { "Rock_Albedo.png", "Rock_Roughness.png", "Wall_Albedo_2K.png",
             "Wall_Normal_2K.png", "Rock_Roughness_4K.png", "Wall_Logo.png",
             "My_Logo.png" }

TextureSetInfoOf == [n \in KnownFileNames |-> MatchTextureSetName(n)]

ExtractInfoFromTextureSetName(file_path_or_asset) ==
    LET file_path == Basename(file_path_or_asset) IN
    IF file_path \in KnownFileNames THEN TextureSetInfoOf[file_path]
    ELSE MatchTextureSetName(file_path)

(***************************************************************************)
(* _extract_image_data, _build_texture_sets                                *)
(***************************************************************************)
\* resolution = None
NoneResolution == <<>>

\* width * height, an unknown resolution counting as (0, 0)
Area(resolution) ==
    IF resolution = NoneResolution THEN 0 ELSE resolution[1] * resolution[2]

\* open_image(path) succeeds: the file is there and its header is readable
CanOpen(d, path) == path \in DOMAIN d /\ d[path].exists /\ d[path].header_ok

\* _extract_image_data: the size read from the header, None on OSError/ValueError
ExtractImageData(d, file_path) ==
    IF CanOpen(d, file_path) THEN d[file_path].size ELSE NoneResolution

\* dict assignment f[k] = v
Put(f, k, v) == (k :> v) @@ f

EmptyDict == <<>>

\* available_texture_maps[texture_type] = texture_data
StoreTextureMap(available_texture_maps, texture_type, texture_data) ==
    Put(available_texture_maps, texture_type, texture_data)

\* lines 694-707: the set is created at its first map (keeping the name as
\* that file spells it) and the map is stored under its type
AddTextureMap(raw, texture_set_name, texture_set_name_lower, texture_type, texture_data) ==
    [ (IF texture_set_name_lower \in DOMAIN raw THEN raw
       ELSE Put(raw, texture_set_name_lower,
                [texture_set_name       |-> texture_set_name,
                 available_texture_maps |-> EmptyDict,
                 processed |-> FALSE, completed |-> FALSE]))
      EXCEPT ![texture_set_name_lower].available_texture_maps =
                StoreTextureMap(@, texture_type, texture_data) ]

\* lines 679-707 for one file whose name has been matched (info)
BuildFromInfo(raw, d, full_path, info) ==
    IF ~info.matched THEN raw
    ELSE AddTextureMap(raw, info.texture_set_name, Lower(info.texture_set_name),
                       info.texture_type,
                       [file_path  |-> full_path,
                        resolution |-> ExtractImageData(d, full_path),
                        suffix     |-> info.declared_suffix,
                        filename   |-> info.original_filename])

\* one iteration of the file loop
BuildFromFile(raw, d, full_path) ==
    BuildFromInfo(raw, d, full_path, ExtractInfoFromTextureSetName(full_path))

\* The file loop of _build_texture_sets (required_texture_types_by_set is None
\* at its only call).  The closing sort orders the keys; a function has no
\* order of its own, the per-set loop walks the keys in sorted order.
RECURSIVE BuildFrom(_, _, _, _, _)
BuildFrom(input_folder, files, d, i, raw) ==
    IF i > Len(files) THEN raw
    ELSE BuildFrom(input_folder, files, d, i + 1,
                   BuildFromFile(raw, d, JoinPath(input_folder, files[i])))

BuildTextureSets(input_folder, files, d) == BuildFrom(input_folder, files, d, 1, EmptyDict)

(***************************************************************************)
(* _get_available_texture_maps_for_packing, _get_valid_modes_for_set       *)
(***************************************************************************)
\* A TextureMapCollection built for one mode is an insertion-ordered dict:
\* a sequence of [texture_type, data] with distinct texture_type.
DictKeys(od) == { od[i].texture_type : i \in 1..Len(od) }

DictGet(od, key) ==
    (CHOOSE i \in 1..Len(od) : od[i].texture_type = key)

\* lines 780-789 for one slot of base type `base`
CollectMapOfType(acc, available_maps, base) ==
    IF base \in DictKeys(acc) THEN acc
    ELSE IF base \in DOMAIN available_maps
    THEN Append(acc, [texture_type |-> base, data |-> available_maps[base]])
    ELSE acc

RECURSIVE CollectMaps(_, _, _, _)
CollectMaps(channels, available_maps, k, acc) ==
    IF k > Len(ChannelNames) THEN acc
    ELSE CollectMaps(channels, available_maps, k + 1,
            IF channels[ChannelNames[k]] = "" THEN acc
            ELSE CollectMapOfType(acc, available_maps,
                                  StripChannelSpecifier(channels[ChannelNames[k]])))

\* _get_available_texture_maps_for_packing: the set's maps the mode uses, in
\* slot order R, G, B, A, each base type once.  A set holds one TextureMapData
\* per type (never a list), so the entry is taken as it is.
GetAvailableTextureMapsForPacking(mode, available_maps) ==
    CollectMaps(mode.channels, available_maps, 1, <<>>)

\* (variant) every required type has to be present, however many there are
ExactCoverageRule(required_texture_types, present_texture_types) ==
    present_texture_types = required_texture_types

\* the coverage test of _get_valid_modes_for_set (line 804, negated):
\*   |required| <= 2: every required type present; |required| > 2: two present
CoverageRule(required_texture_types, present_texture_types) ==
    \/ Cardinality(required_texture_types) <= 2
         /\ present_texture_types = required_texture_types
    \/ Cardinality(required_texture_types) > 2
         /\ Cardinality(present_texture_types) >= 2

\* (variant) one map is enough
QualifiesWithOneMap(required_texture_types, available_texture_types, texture_maps_for_mode) ==
    /\ CoverageRule(required_texture_types,
                    required_texture_types \cap available_texture_types)
    /\ Len(texture_maps_for_mode) >= 1

\* the two guards of the mode loop
QualifiesWith(required_texture_types, available_texture_types, texture_maps_for_mode) ==
    /\ CoverageRule(required_texture_types,
                    required_texture_types \cap available_texture_types)
    /\ Len(texture_maps_for_mode) >= 2

\* one iteration of the mode loop: does the mode get an entry
ModeQualifies(mode, available_maps) ==
    QualifiesWith(RequiredBaseTextureMapTypesForMode(mode), DOMAIN available_maps,
                  GetAvailableTextureMapsForPacking(mode, available_maps))

ValidModeEntry(original_name, mode, available_maps) ==
    [texture_set_name      |-> original_name,
     mode                  |-> mode,
     texture_maps_for_mode |-> GetAvailableTextureMapsForPacking(mode, available_maps),
     packing_mode_suffix   |-> ExtractModeName(mode)]

RECURSIVE ValidModesFrom(_, _, _, _, _)
ValidModesFrom(original_name, available_maps, modes, i, valid_modes_with_maps) ==
    IF i > Len(modes) THEN valid_modes_with_maps
    ELSE ValidModesFrom(original_name, available_maps, modes, i + 1,
            IF ModeQualifies(modes[i], available_maps)
            THEN Append(valid_modes_with_maps,
                        ValidModeEntry(original_name, modes[i], available_maps))
            ELSE valid_modes_with_maps)

GetValidModesForSet(original_name, available_maps, modes) ==
    ValidModesFrom(original_name, available_maps, modes, 1, <<>>)

(***************************************************************************)
(* is_power_of_two, _check_textures_and_pick_target_resolution             *)
(***************************************************************************)
\* (n & (n - 1) == 0) and n != 0, for n >= 0
RECURSIVE IsPowerOfTwo(_)
IsPowerOfTwo(n) == n > 0 /\ (n = 1 \/ (n % 2 = 0 /\ IsPowerOfTwo(n \div 2)))

\* min(seq, key=area) / max(seq, key=area): the first element with the
\* smallest / largest width*height
FirstMinByArea(resolutions) ==
    resolutions[MinOf({ i \in 1..Len(resolutions) :
        \A j \in 1..Len(resolutions) : Area(resolutions[i]) <= Area(resolutions[j]) })]

FirstMaxByArea(resolutions) ==
    resolutions[MinOf({ i \in 1..Len(resolutions) :
        \A j \in 1..Len(resolutions) : Area(resolutions[i]) >= Area(resolutions[j]) })]

\* the resolutions that are not None, in dict order
KnownResolutions(texture_maps_for_mode) ==
    LET RECURSIVE Walk(_)
        Walk(i) == IF i > Len(texture_maps_for_mode) THEN <<>>
                   ELSE (IF texture_maps_for_mode[i].data.resolution # NoneResolution
                         THEN <<texture_maps_for_mode[i].data.resolution>> ELSE <<>>)
                        \o Walk(i + 1)
    IN Walk(1)

\* (variant) the strategies exchanged
PickAgainstStrategy(resize_strategy, min_resolution, max_resolution) ==
    IF resize_strategy = "up" THEN min_resolution ELSE max_resolution

\* the last branch: which resolution a mismatch resolves to
PickByStrategy(resize_strategy, min_resolution, max_resolution) ==
    IF resize_strategy = "up" THEN max_resolution ELSE min_resolution

\* lines 849-862, given the resolutions of least and of greatest area
PickTarget(texture_resolutions, resize_strategy, min_resolution, max_resolution) ==
    IF ~IsPowerOfTwo(min_resolution[1]) \/ ~IsPowerOfTwo(min_resolution[2])
    THEN [is_valid |-> FALSE, target |-> min_resolution]
    ELSE IF Cardinality({ texture_resolutions[i] : i \in 1..Len(texture_resolutions) }) = 1
    THEN [is_valid |-> TRUE, target |-> min_resolution]
    ELSE [is_valid |-> TRUE,
          target   |-> PickByStrategy(resize_strategy, min_resolution, max_resolution)]

\* lines 840-862, given the resolutions that could be read
CheckResolutions(texture_resolutions, texture_count, resize_strategy) ==
    IF texture_resolutions = <<>> \/ Len(texture_resolutions) < texture_count
    THEN [is_valid |-> FALSE, target |-> <<0, 0>>]
    ELSE PickTarget(texture_resolutions, resize_strategy,
                    FirstMinByArea(texture_resolutions),
                    FirstMaxByArea(texture_resolutions))

CheckTexturesAndPickTargetResolution(texture_maps_for_mode, resize_strategy) ==
    CheckResolutions(KnownResolutions(texture_maps_for_mode),
                     Len(texture_maps_for_mode), resize_strategy)

(***************************************************************************)
(* SpecBuild: the files of one folder are grouped into texture sets        *)
(***************************************************************************)
\* at most this many files in the folder
MaxFiles == 3

\* what a file on disk may be: unreadable, or an image of some size
ImageFile(size, mode, px) ==
    [exists |-> TRUE, header_ok |-> TRUE, data_ok |-> TRUE,
     size |-> size, mode |-> mode, px |-> px]

UnreadableFile ==
    [exists |-> TRUE, header_ok |-> FALSE, data_ok |-> FALSE,
     size |-> <<0, 0>>, mode |-> "", px |-> <<>>]

BuildFileStates ==
    { UnreadableFile } \cup
    { ImageFile(sz, "RGB", <<>>) : sz \in { <<256, 256>>, <<512, 512>> } }

\* the elements of seq at the positions in S, in order
RECURSIVE SubSequence(_, _, _)
SubSequence(seq, S, i) ==
    IF i > Len(seq) THEN <<>>
    ELSE (IF i \in S THEN <<seq[i]>> ELSE <<>>) \o SubSequence(seq, S, i + 1)

IdleModes ==
    /\ config_modes = <<>>
    /\ PACKING_MODES = <<>>
    /\ valid_packing_modes = <<>>

IdleBuild ==
    /\ disk = EmptyDict
    /\ initial_files = <<>>
    /\ raw_textures = EmptyDict

\* nothing of the per-set loop has run
IdleResolve ==
    /\ set_position = 0
    /\ valid_packing_modes_with_maps = <<>>
    /\ mode_position = 0
    /\ is_valid = FALSE
    /\ target_resolution = <<0, 0>>
    /\ expected_texture_resolution = EmptyDict
    /\ invalid_mode_names_for_set = {}
    /\ invalid_resolution_for_summary = EmptyDict

\* the settings and the set-up of the run, where a specification starts
\* after them
IdleSetup ==
    /\ FILE_TYPE = "png"
    /\ TARGET_FOLDER_NAME = "created_maps"
    /\ BACKUP_FOLDER_NAME = ""
    /\ export_extension = "png"
    /\ folder_files = <<>>
    /\ files_listed = FALSE
    /\ selection_paths_map = {}
    /\ pre_skipped_texture_sets_summary = EmptyDict
    /\ created_directories = {}
    /\ DELETE_USED = FALSE
    /\ textures_to_scale = <<>>
    /\ suffix_mismatch_buffer = <<>>
    /\ log_lines = {}

\* no generation has started
IdleGen ==
    /\ backup_directory = ""
    /\ gen_position = 1
    /\ gen_target = <<0, 0>>
    /\ heap = <<>>
    /\ loaded_textures = EmptyDict
    /\ channel_images = <<>>
    /\ packed_texture = 0
    /\ missing_texture_maps = <<>>
    /\ loop_position = 1
    /\ raised = ""
    /\ filename = ""
    /\ open_failures = {}
    /\ outputs = {}

InitBuild ==
    /\ pc = "validated"
    /\ IdleSetup
    /\ IdleGen
    /\ IdleModes
    /\ RESIZE_STRATEGY = "down"
    /\ IdleResolve
    /\ \E S \in SUBSET (1..Len(FilePool)) :
         /\ Cardinality(S) <= MaxFiles
         /\ initial_files = SubSequence(FilePool, S, 1)
         /\ disk \in [ { JoinPath(InputFolder, FilePool[i]) : i \in S } -> BuildFileStates ]
    /\ raw_textures = EmptyDict

\* channel_packer line 106: raw_textures = _build_texture_sets(folder, files_in_group)
BuildSets ==
    /\ pc = "validated"
    /\ raw_textures' = BuildTextureSets(InputFolder, initial_files, disk)
    /\ pc' = "built"
    /\ set_position' = 1
    /\ UNCHANGED <<modeVars, disk, initial_files, setupVars,
                   valid_packing_modes_with_maps, mode_position, is_valid,
                   target_resolution, expected_texture_resolution,
                   invalid_mode_names_for_set, invalid_resolution_for_summary,
                   genVars>>

NextBuild == BuildSets

SpecBuild == InitBuild /\ [][NextBuild]_vars

(***************************************************************************)
(* SpecModes: the configured modes are validated                           *)
(***************************************************************************)
\* Values of the slots that are not being varied
PlainSlotValues == { "Roughness", "Normal.g" }

ModeNames == { "", "ARM" }

\* One configured mode: one slot ranges over SlotValues, Alpha over a few
\* values, the rest over PlainSlotValues.
ConfiguredModes ==
    { [mode_name |-> nm, custom_suffix |-> "",
       channels |-> [c \in {"R", "G", "B", "A"} |->
                        IF c = probe THEN v
                        ELSE IF c = "A" THEN a ELSE p]] :
        nm \in ModeNames, probe \in {"R", "G", "B", "A"}, v \in SlotValues,
        a \in {"", "Roughness"}, p \in PlainSlotValues }

\* A fixed second mode, so that the loop runs past the first one
SecondMode ==
    [mode_name |-> "ORM", custom_suffix |-> "",
     channels |-> [c \in {"R", "G", "B", "A"} |->
                     CASE c = "R" -> "AO" [] c = "G" -> "Roughness"
                       [] c = "B" -> "Metalness" [] OTHER -> ""]]

InitModes ==
    /\ pc = "config"
    /\ IdleSetup
    /\ IdleGen
    /\ \E m \in ConfiguredModes : config_modes = <<m, SecondMode>>
    /\ PACKING_MODES = config_modes
    /\ valid_packing_modes = <<>>
    /\ IdleBuild
    /\ RESIZE_STRATEGY = "down"
    /\ IdleResolve

\* the outcome r of _validate_packing_modes takes effect
Validated(r) ==
    /\ PACKING_MODES' = r.modes
    /\ valid_packing_modes' = r.valid
    /\ pc' = IF r.exit THEN "exit" ELSE "validated"

\* channel_packer line 75: valid_packing_modes = _validate_packing_modes()
ValidateModes ==
    /\ pc = "config"
    /\ Validated(ValidatePackingModes(PACKING_MODES))
    /\ UNCHANGED <<config_modes, buildVars, resolveVars, genVars>>

NextModes == ValidateModes

SpecModes == InitModes /\ [][NextModes]_vars

(***************************************************************************)
(* SpecResolve: configuration, files, then the per-set loop of             *)
(* channel_packer (lines 110-193): which modes a set qualifies for and at  *)
(* which resolution each is to be packed                                   *)
(***************************************************************************)
\* code-point order of the characters that occur in set keys
CharOrder == " -.0123456789ABCDEFGHIJKLMNOPQRSTUVWXYZ_abcdefghijklmnopqrstuvwxyz"

CharRank == [c \in { Ch(CharOrder, i) : i \in 1..Len(CharOrder) } |-> IndexIn(c, CharOrder)]

\* Python's a < b on str
RECURSIVE StrLess(_, _)
StrLess(a, b) ==
    IF b = "" THEN FALSE
    ELSE IF a = "" THEN TRUE
    ELSE IF Ch(a, 1) = Ch(b, 1) THEN StrLess(Tail(a), Tail(b))
    ELSE CharRank[Ch(a, 1)] < CharRank[Ch(b, 1)]

\* the keys of raw_textures in the order line 727 leaves them: sorted
RECURSIVE SortedKeys(_)
SortedKeys(keys) ==
    IF keys = {} THEN <<>>
    ELSE LET first == CHOOSE k \in keys : \A o \in keys \ {k} : StrLess(k, o)
         IN  <<first>> \o SortedKeys(keys \ {first})

SetOrder == SortedKeys(DOMAIN raw_textures)

\* the set the per-set loop is at
CurrentKey == SetOrder[set_position]

\* The files of the folder in this specification
ResolveFiles ==
    <<"Rock_2K_Normal.png", "Wall_Metalness.png", "Wall_Normal.png",
      "Wall_Roughness_2K.png", "wall_AO.png">>

\* the sizes a readable file may have
ResolveSizes == { <<256, 256>>, <<512, 512>>, <<300, 300>>, <<1024, 256>> }

\* the lone map of set Rock is a plain readable one
ResolveFileStates(name) ==
    IF name = "Rock_2K_Normal.png" THEN { ImageFile(<<256, 256>>, "RGB", <<>>) }
    ELSE { UnreadableFile } \cup { ImageFile(sz, "RGB", <<>>) : sz \in ResolveSizes }

Channels(r, g, b, a) ==
    [c \in {"R", "G", "B", "A"} |->
        CASE c = "R" -> r [] c = "G" -> g [] c = "B" -> b [] OTHER -> a]

\* The modes a configuration is made of: three types, two types, two types
\* with an alpha slot.
ResolveModePool ==
    << SecondMode,
       [mode_name |-> "NR", custom_suffix |-> "",
        channels |-> Channels("Normal", "Normal.g", "Roughness", "")],
       [mode_name |-> "NA", custom_suffix |-> "",
        channels |-> Channels("Normal", "normal", "Normal_B", "AO")],
       [mode_name |-> "NN", custom_suffix |-> "",
        channels |-> Channels("Normal.r", "Normal.g", "Normal_B", "")] >>

\* the configurations: one mode, two modes, three modes, and a mode of one
\* type before one of two
ResolveConfigs ==
    { <<ResolveModePool[1]>>,
      <<ResolveModePool[2], ResolveModePool[3]>>,
      <<ResolveModePool[1], ResolveModePool[2], ResolveModePool[3]>>,
      <<ResolveModePool[4], ResolveModePool[2]>> }

\* at most this many files of the folder are present
MaxResolveFiles == 3

ResolveStrategies == { "up", "down", "UP" }

InitResolve ==
    /\ pc = "config"
    /\ IdleSetup
    /\ IdleGen
    /\ config_modes \in ResolveConfigs
    /\ PACKING_MODES = config_modes
    /\ valid_packing_modes = <<>>
    /\ RESIZE_STRATEGY \in ResolveStrategies
    /\ \E S \in SUBSET (1..Len(ResolveFiles)) :
         /\ Cardinality(S) <= MaxResolveFiles
         /\ initial_files = SubSequence(ResolveFiles, S, 1)
         /\ \E states \in [ S -> UNION { ResolveFileStates(ResolveFiles[i]) : i \in S } ] :
              /\ \A i \in S : states[i] \in ResolveFileStates(ResolveFiles[i])
              /\ disk = [ path \in { JoinPath(InputFolder, ResolveFiles[i]) : i \in S } |->
                            states[CHOOSE i \in S : JoinPath(InputFolder, ResolveFiles[i]) = path] ]
    /\ raw_textures = EmptyDict
    /\ IdleResolve

\* lines 119-137, given the entries _get_valid_modes_for_set returned
StartSet(entries) ==
    /\ valid_packing_modes_with_maps' = entries
    /\ expected_texture_resolution' = EmptyDict
    /\ suffix_mismatch_buffer' = <<>>
    /\ textures_to_scale' = <<>>
    /\ IF entries = <<>>
       THEN /\ raw_textures' = [raw_textures EXCEPT ![CurrentKey].completed = TRUE]
            /\ set_position' = set_position + 1
            /\ pc' = "built"
            /\ UNCHANGED <<mode_position, invalid_mode_names_for_set,
                           invalid_resolution_for_summary>>
       ELSE /\ invalid_mode_names_for_set' = {}
            /\ invalid_resolution_for_summary' = EmptyDict
            /\ mode_position' = 1
            /\ pc' = "check"
            /\ UNCHANGED <<raw_textures, set_position>>

\* lines 110-133: the loop takes the next set and collects its modes; a set
\* that qualifies for none is marked completed and the loop goes on
GetValidModes ==
    /\ pc = "built"
    /\ set_position <= Len(SetOrder)
    /\ StartSet(GetValidModesForSet(raw_textures[CurrentKey].texture_set_name,
                                    raw_textures[CurrentKey].available_texture_maps,
                                    valid_packing_modes))
    /\ UNCHANGED <<modeVars, disk, initial_files, settingVars, log_lines,
                   is_valid, target_resolution, genVars>>

\* lines 142-169, given what the resolution check returned
RecordCheck(mode_name, checked) ==
    /\ is_valid' = checked.is_valid
    /\ target_resolution' = checked.target
    /\ IF ~checked.is_valid
       THEN /\ invalid_mode_names_for_set' = invalid_mode_names_for_set \cup {mode_name}
            /\ invalid_resolution_for_summary' =
                   Put(invalid_resolution_for_summary, mode_name, checked.target)
            /\ UNCHANGED expected_texture_resolution
       ELSE /\ expected_texture_resolution' =
                   Put(expected_texture_resolution, mode_name, checked.target)
            /\ UNCHANGED <<invalid_mode_names_for_set, invalid_resolution_for_summary>>

\* resolution_to_suffix
\* (variant) the smaller dimension
MinOfSize(size) == IF size[1] <= size[2] THEN size[1] ELSE size[2]

\* max(size)
MaxOfSize(size) == IF size[1] >= size[2] THEN size[1] ELSE size[2]

\* resolution_to_suffix, given width = max(size)
SuffixOfWidth(width) ==
    IF width <= 512 THEN "512"
    ELSE IF width <= 1024 THEN "1K"
    ELSE IF width <= 2048 THEN "2K"
    ELSE IF width <= 4096 THEN "4K"
    ELSE IF width <= 8192 THEN "8K"
    ELSE ToString(width) \o "px"

ResolutionToSuffix(size) == SuffixOfWidth(MaxOfSize(size))

\* _list_textures_to_scale: the maps whose resolution is not the target
ListTexturesToScale(maps_for_mode, target_size) ==
    SelectSeq([i \in 1..Len(maps_for_mode) |->
                  [filename   |-> maps_for_mode[i].data.filename,
                   resolution |-> maps_for_mode[i].data.resolution]],
              LAMBDA t : t.resolution # target_size)

\* str.lstrip("_")
RECURSIVE LStripUnderscores(_)
LStripUnderscores(s) ==
    IF s # "" /\ Head(s) = "_" THEN LStripUnderscores(Tail(s)) ELSE s

\* re.split(r"[-_.]", s, maxsplit=1)[0]
RECURSIVE BeforeSeparator(_)
BeforeSeparator(s) ==
    IF s = "" \/ Head(s) \in {"-", "_", "."} THEN ""
    ELSE Head(s) \o BeforeSeparator(Tail(s))

\* check_texture_suffix_mismatch: declared_suffix
DeclaredSuffix(suffix) == BeforeSeparator(LStripUnderscores(Lower(suffix)))

\* check_texture_suffix_mismatch(texture) returns a warning
SuffixMismatch(texture) ==
    /\ texture.resolution # NoneResolution
    /\ DeclaredSuffix(texture.suffix) # ""
    /\ DeclaredSuffix(texture.suffix) #
          LStripUnderscores(Lower(ResolutionToSuffix(texture.resolution)))

\* _check_suffix_warnings_for_set
CheckSuffixWarningsForSet(maps_for_mode) ==
    SelectSeq([i \in 1..Len(maps_for_mode) |->
                  [filename   |-> maps_for_mode[i].data.filename,
                   resolution |-> maps_for_mode[i].data.resolution,
                   mismatch   |-> SuffixMismatch(maps_for_mode[i].data)]],
              LAMBDA t : t.mismatch)

\* lines 156-167: the diagnostics of a mode that passed the check; a mode
\* that did not is left by "continue" before them
Diagnose(maps_for_mode, checked) ==
    IF checked.is_valid
    THEN /\ textures_to_scale' = ListTexturesToScale(maps_for_mode, checked.target)
         /\ suffix_mismatch_buffer' =
               suffix_mismatch_buffer \o CheckSuffixWarningsForSet(maps_for_mode)
    ELSE UNCHANGED <<textures_to_scale, suffix_mismatch_buffer>>

\* lines 139-169: one iteration of the mode loop
CheckMode ==
    /\ pc = "check"
    /\ mode_position <= Len(valid_packing_modes_with_maps)
    /\ RecordCheck(valid_packing_modes_with_maps[mode_position].mode.mode_name,
                   CheckTexturesAndPickTargetResolution(
                       valid_packing_modes_with_maps[mode_position].texture_maps_for_mode,
                       RESIZE_STRATEGY))
    /\ Diagnose(valid_packing_modes_with_maps[mode_position].texture_maps_for_mode,
                CheckTexturesAndPickTargetResolution(
                    valid_packing_modes_with_maps[mode_position].texture_maps_for_mode,
                    RESIZE_STRATEGY))
    /\ mode_position' = mode_position + 1
    /\ UNCHANGED <<pc, modeVars, buildVars, settingVars, log_lines, set_position,
                   valid_packing_modes_with_maps, genVars>>

\* (variant) a mode with a map to scale or a suffix mismatch is not ready
SelectEntriesWithoutWarnings(entries, names, wanted) ==
    SelectSeq(entries,
              LAMBDA e : /\ (e.mode.mode_name \in names) = wanted
                         /\ wanted \/ /\ CheckSuffixWarningsForSet(e.texture_maps_for_mode) = <<>>
                                      /\ \A i, j \in 1..Len(e.texture_maps_for_mode) :
                                            e.texture_maps_for_mode[i].data.resolution =
                                              e.texture_maps_for_mode[j].data.resolution)

\* [mode for mode in entries if (mode.mode["mode_name"] in names) == wanted]
SelectEntries(entries, names, wanted) ==
    LET RECURSIVE Walk(_)
        Walk(i) == IF i > Len(entries) THEN <<>>
                   ELSE (IF (entries[i].mode.mode_name \in names) = wanted
                         THEN <<entries[i]>> ELSE <<>>) \o Walk(i + 1)
    IN Walk(1)

\* lines 183-193, given the two lists
KeepReady(ready_packing_modes, invalid_packing_modes) ==
    IF ready_packing_modes = <<>>
    THEN /\ raw_textures' =
              [raw_textures EXCEPT
                 ![CurrentKey].completed = TRUE,
                 ![CurrentKey].processed =
                     IF invalid_packing_modes # <<>> THEN TRUE ELSE @]
         /\ valid_packing_modes_with_maps' = <<>>
    ELSE /\ valid_packing_modes_with_maps' = ready_packing_modes
         /\ UNCHANGED raw_textures

\* lines 174-193: the ready modes replace the list; a set without any is
\* marked completed, and processed as well when some mode was invalid
FinalizeModes ==
    /\ pc = "check"
    /\ mode_position > Len(valid_packing_modes_with_maps)
    /\ KeepReady(SelectEntries(valid_packing_modes_with_maps,
                               invalid_mode_names_for_set, FALSE),
                 SelectEntries(valid_packing_modes_with_maps,
                               invalid_mode_names_for_set, TRUE))
    /\ pc' = "ready"
    /\ UNCHANGED <<modeVars, disk, initial_files, setupVars, set_position,
                   mode_position, is_valid, target_resolution,
                   expected_texture_resolution, invalid_mode_names_for_set,
                   invalid_resolution_for_summary, genVars>>

\* the loop moves on to the next set; what lines 195-251 do with the ready
\* modes (warnings, generation, summary) is the subject of SpecGen
NextSet ==
    /\ pc = "ready"
    /\ set_position' = set_position + 1
    /\ pc' = "built"
    /\ UNCHANGED <<modeVars, buildVars, setupVars,
                   valid_packing_modes_with_maps, mode_position, is_valid,
                   target_resolution, expected_texture_resolution,
                   invalid_mode_names_for_set, invalid_resolution_for_summary,
                   genVars>>

NextResolve ==
    \/ ValidateModes
    \/ BuildSets
    \/ GetValidModes
    \/ CheckMode
    \/ FinalizeModes
    \/ NextSet

SpecResolve == InitResolve /\ [][NextResolve]_vars

(***************************************************************************)
(* image_lib: an image is a record; its planes are uniform, px gives the   *)
(* value of each band.  The files here are of mode L, RGB or P.            *)
(***************************************************************************)
\* open_image(path), for a file whose header can be read.  Pillow reads the
\* pixel data at the first operation that needs it: data_ok tells whether
\* that read will succeed.
OpenImage(file, path) ==
    [mode |-> file.mode, size |-> file.size, px |-> file.px,
     data_ok |-> file.data_ok, path |-> path, closed |-> FALSE]

\* close_image(image)
CloseImage(image) == [image EXCEPT !.closed = TRUE]

\* new_image_grayscale(size, fill)
NewImageGrayscale(size, fill) ==
    [mode |-> "L", size |-> size, px |-> [b \in {"L"} |-> fill],
     data_ok |-> TRUE, path |-> "", closed |-> FALSE]

\* image.resize raises: OSError when the pixel data cannot be read,
\* ValueError for an empty size
ResizeRaises(image, size) == ~image.data_ok \/ size[1] = 0 \/ size[2] = 0

\* resize(image, size): a new image; resampling a uniform plane keeps its value
Resize(image, size) ==
    [image EXCEPT !.size = size, !.path = "", !.closed = FALSE]

\* get_image_channels(image): image.getbands()
GetImageChannels(image) ==
    CASE image.mode = "L"    -> {"L"}
      [] image.mode = "RGB"  -> {"R", "G", "B"}
      [] image.mode = "RGBA" -> {"R", "G", "B", "A"}
      [] OTHER               -> {image.mode}

\* get_channel(image, ch): the band as a new L image
GetChannel(image, ch) ==
    [mode |-> "L", size |-> image.size, px |-> [b \in {"L"} |-> image.px[ch]],
     data_ok |-> TRUE, path |-> "", closed |-> FALSE]

\* is_grayscale(image)
IsGrayscale(image) ==
    \/ image.mode \in {"L", "LA", "I"}
    \/ StartsWith(image.mode, "I;16")

\* is_rgb_grayscale(image): bands R and G hold the same values; every
\* exception inside it ends in False
\* (variant) never sees a grayscale image in an RGB file
NeverRgbGrayscale(image) == FALSE

IsRgbGrayscale(image) == image.data_ok /\ image.px["R"] = image.px["G"]

\* image.convert("L") of an RGB image: L = (19595 R + 38470 G + 7471 B + 0x8000) >> 16
Luma(px) == (px["R"] * 19595 + px["G"] * 38470 + px["B"] * 7471 + 32768) \div 65536

\* _16_to_8bit: (v >> 8) & 0xFF
SixteenToEightBit(v) == (v \div 256) % 256

\* What convert_to_grayscale(image) holds when it makes a new image:
\* the scaled plane of a 16-bit image, the L band of LA, the luma of RGB
GrayscaleValue(image) ==
    IF image.mode = "I" \/ StartsWith(image.mode, "I;16")
    THEN SixteenToEightBit(image.px["I"])
    ELSE IF image.mode = "LA" THEN image.px["L"]
    ELSE Luma(image.px)

\* convert_to_grayscale(image) for an image that is not of mode L
ConvertToGrayscale(image) ==
    [mode |-> "L", size |-> image.size, px |-> [b \in {"L"} |-> GrayscaleValue(image)],
     data_ok |-> TRUE, path |-> "", closed |-> FALSE]

(***************************************************************************)
(* _extract_channel                                                        *)
(***************************************************************************)
\* re.search(r'[._]([rgba])$', texture_map_type, re.IGNORECASE), group 1
\* in upper case; "" when there is no match
RequestedChannel(texture_map_type) ==
    IF /\ Len(texture_map_type) >= 2
       /\ IsDotOrUnderscore(Ch(texture_map_type, Len(texture_map_type) - 1))
       /\ LowerCh(Ch(texture_map_type, Len(texture_map_type))) \in {"r", "g", "b", "a"}
    THEN UpperCh(Ch(texture_map_type, Len(texture_map_type)))
    ELSE ""

\* is_texture_grayscale, given the index of the type's entry (0 for none)
IsKindGrayscale(config_index) ==
    config_index # 0 /\ Upper(TEXTURE_CONFIG[config_index].kind) = "G"

\* lines 996-1002: the type named before the first "." is a single-channel one
IsTextureGrayscale(texture_map_type) ==
    IsKindGrayscale(ConfigIndexCI(Lower(SplitDotFirst(texture_map_type))))

\* Which way _extract_channel takes for an image that is not None:
\*   "same"  the image itself is returned     "none"  None is returned
\*   "raise" the pixel data cannot be read     "gray"  convert_to_grayscale
\*   "R", "G", "B", "A"  get_channel of that band
ExtractChannelPlan(image, texture_map_type) ==
    IF IsGrayscale(image)
    THEN IF image.mode = "L" THEN "same"
         ELSE IF image.data_ok THEN "gray" ELSE "raise"
    ELSE IF image.mode \in {"RGB", "RGBA"}
    THEN IF /\ RequestedChannel(texture_map_type) # ""
            /\ RequestedChannel(texture_map_type) \in GetImageChannels(image)
         THEN IF image.data_ok THEN RequestedChannel(texture_map_type) ELSE "raise"
         ELSE IF IsTextureGrayscale(texture_map_type) /\ IsRgbGrayscale(image)
         THEN "R"
         ELSE IF image.data_ok THEN "gray" ELSE "raise"
    ELSE "none"

\* the new image _extract_channel returns on the ways that create one
ExtractedImage(image, plan) ==
    IF plan = "gray" THEN ConvertToGrayscale(image) ELSE GetChannel(image, plan)

(***************************************************************************)
(* move_used_map, close_image_files                                        *)
(***************************************************************************)
\* os.path.exists(path)
PathExists(d, path) == path \in DOMAIN d /\ d[path].exists

\* os.path.splitext(p)[1] for a bare file name
SplitExtExt(file_name) == From(file_name, Len(SplitExtRoot(file_name)) + 1)

\* lines 204-211: the first free "<name>_<i><ext>" in the backup folder
RECURSIVE AlternativePath(_, _, _, _)
AlternativePath(d, backup, file_name, i) ==
    IF ~PathExists(d, JoinPath(backup, SplitExtRoot(file_name) \o "_" \o ToString(i)
                                          \o SplitExtExt(file_name)))
    THEN JoinPath(backup, SplitExtRoot(file_name) \o "_" \o ToString(i)
                             \o SplitExtExt(file_name))
    ELSE AlternativePath(d, backup, file_name, i + 1)

\* lines 198-211: where the file goes
MoveTargetPath(d, backup, file_name) ==
    IF PathExists(d, JoinPath(backup, file_name))
    THEN AlternativePath(d, backup, file_name, 2)
    ELSE JoinPath(backup, file_name)

\* shutil.move(source_path, target_path)
MoveFile(d, source_path, target_path) ==
    Put([d EXCEPT ![source_path].exists = FALSE], target_path, d[source_path])

\* move_used_map(source_path, backup_directory, context): nothing when no
\* backup folder is configured or the file is gone
MoveUsedMap(d, source_path, backup) ==
    IF backup = "" \/ DELETE_USED THEN d
    ELSE IF source_path = "" \/ ~PathExists(d, source_path) THEN d
    ELSE MoveFile(d, source_path, MoveTargetPath(d, backup, Basename(source_path)))

\* lines 1112-1114: every map of the mode is moved
RECURSIVE MoveUsedMapsFrom(_, _, _, _)
MoveUsedMapsFrom(d, texture_maps_for_mode, i, backup) ==
    IF i > Len(texture_maps_for_mode) THEN d
    ELSE MoveUsedMapsFrom(MoveUsedMap(d, texture_maps_for_mode[i].data.file_path, backup),
                          texture_maps_for_mode, i + 1, backup)

\* close_image_files(handles): every image among them is closed, None skipped
CloseImageFiles(images, handles) ==
    [i \in 1..Len(images) |->
        IF i \in handles THEN CloseImage(images[i]) ELSE images[i]]

(***************************************************************************)
(* _generate_channel_packed_texture, step by step                          *)
(***************************************************************************)
\* dict.get(key, default)
GetOrDefault(f, key, default) == IF key \in DOMAIN f THEN f[key] ELSE default

\* the entry the generation loop is at, and its maps
CurrentEntry == valid_packing_modes_with_maps[gen_position]

CurrentMaps == CurrentEntry.texture_maps_for_mode

\* generated_image_mode
GeneratedImageMode(channels_config) ==
    IF channels_config["A"] # "" THEN "RGBA" ELSE "RGB"

\* the output channels, in order: the letters of generated_image_mode
OutputChannels(channels_config) ==
    SubSeq(ChannelNames, 1, Len(GeneratedImageMode(channels_config)))

\* lines 1085-1089: the fill of a type that is not among the loaded ones
DefaultMapValue(config_index) ==
    IF config_index = 0 THEN 128 ELSE TEXTURE_CONFIG[config_index].fill

\* any(tex.suffix for tex in texture_maps_for_mode.values())
AnySuffix(texture_maps_for_mode) ==
    \E i \in 1..Len(texture_maps_for_mode) : texture_maps_for_mode[i].data.suffix # ""

\* lines 1104-1107
GeneratedFilename(entry, target) ==
    entry.texture_set_name \o "_" \o Strip(entry.packing_mode_suffix)
      \o (IF AnySuffix(entry.texture_maps_for_mode)
          THEN "_" \o ResolutionToSuffix(target) ELSE "")

\* line 1034 to the first try: the locals of the call
StartGenerate ==
    /\ pc = "ready"
    /\ gen_position <= Len(valid_packing_modes_with_maps)
    /\ gen_target' = GetOrDefault(expected_texture_resolution,
                                  Strip(CurrentEntry.mode.mode_name), <<0, 0>>)
    /\ heap' = <<>>
    /\ loaded_textures' = EmptyDict
    /\ channel_images' = <<>>
    /\ packed_texture' = 0
    /\ missing_texture_maps' = <<>>
    /\ loop_position' = 1
    /\ raised' = ""
    /\ filename' = ""
    /\ open_failures' = {}
    /\ pc' = "load"
    /\ UNCHANGED <<modeVars, buildVars, resolveVars, backup_directory,
                   gen_position, outputs>>

\* the loop at loop_position goes on, or gives way to the next step
Advance(count, next_pc) ==
    /\ loop_position' = IF loop_position >= count THEN 1 ELSE loop_position + 1
    /\ pc' = IF loop_position >= count THEN next_pc ELSE pc
    /\ UNCHANGED raised

\* an exception leaves the try block: control passes to the finally clause
Raise(exception) ==
    /\ raised' = exception
    /\ pc' = "finally"
    /\ UNCHANGED loop_position

\* loaded_textures[texture_name] = handle, the call having created images
Loaded(texture_name, handle, images) ==
    /\ loaded_textures' = Put(loaded_textures, texture_name, handle)
    /\ heap' = heap \o images

\* lines 1056-1063, given the image open_image returned: kept as it is,
\* replaced by a resized copy (and closed), or - the resize raising inside
\* the try - left open while the map is recorded as None
LoadOpened(texture_name, texture) ==
    IF texture.size = gen_target
    THEN Loaded(texture_name, Len(heap) + 1, <<texture>>)
    ELSE IF ResizeRaises(texture, gen_target)
    THEN Loaded(texture_name, 0, <<texture>>)
    ELSE Loaded(texture_name, Len(heap) + 2,
                <<CloseImage(texture), Resize(texture, gen_target)>>)

\* lines 1054-1063 for one map
LoadFrom(texture_name, file_path) ==
    IF ~CanOpen(disk, file_path)
    THEN /\ Loaded(texture_name, 0, <<>>)
         /\ open_failures' = open_failures \cup {texture_name}
    ELSE /\ LoadOpened(texture_name, OpenImage(disk[file_path], file_path))
         /\ UNCHANGED open_failures

\* lines 1052-1063: one iteration of the loading loop
LoadTexture ==
    /\ pc = "load"
    /\ LoadFrom(CurrentMaps[loop_position].texture_type,
                CurrentMaps[loop_position].data.file_path)
    /\ Advance(Len(CurrentMaps), "fill")
    /\ UNCHANGED <<modeVars, buildVars, resolveVars, backup_directory,
                   gen_position, gen_target, channel_images, packed_texture,
                   missing_texture_maps, filename, outputs>>

\* lines 1069-1073, given what the subscript TEXTURE_CONFIG[...] found
FillMissing(texture_name, config_index) ==
    IF config_index = 0
    THEN /\ Raise("KeyError")
         /\ UNCHANGED <<heap, loaded_textures, missing_texture_maps>>
    ELSE /\ Loaded(texture_name, Len(heap) + 1,
                   <<NewImageGrayscale(gen_target, TEXTURE_CONFIG[config_index].fill)>>)
         /\ missing_texture_maps' = Append(missing_texture_maps, texture_name)
         /\ Advance(Len(CurrentMaps), "collect")

\* lines 1075-1076: the resized copy takes the place of the image
ScaleLoaded(texture_name, target_texture) ==
    IF ResizeRaises(heap[target_texture], gen_target)
    THEN /\ Raise("OSError")
         /\ UNCHANGED <<heap, loaded_textures, missing_texture_maps>>
    ELSE /\ Loaded(texture_name, Len(heap) + 1,
                   <<Resize(heap[target_texture], gen_target)>>)
         /\ Advance(Len(CurrentMaps), "collect")
         /\ UNCHANGED missing_texture_maps

\* lines 1068-1076 for one map
FillFrom(texture_name, target_texture) ==
    IF target_texture = 0
    THEN FillMissing(texture_name, ConfigIndexExact(Lower(texture_name)))
    ELSE IF heap[target_texture].size # gen_target
    THEN ScaleLoaded(texture_name, target_texture)
    ELSE /\ Advance(Len(CurrentMaps), "collect")
         /\ UNCHANGED <<heap, loaded_textures, missing_texture_maps>>

\* lines 1067-1076: one iteration of the fill-and-scale loop
FillOrScale ==
    /\ pc = "fill"
    /\ FillFrom(CurrentMaps[loop_position].texture_type,
                GetOrDefault(loaded_textures, CurrentMaps[loop_position].texture_type, 0))
    /\ UNCHANGED <<modeVars, buildVars, resolveVars, backup_directory,
                   gen_position, gen_target, channel_images, packed_texture,
                   filename, open_failures, outputs>>

\* lines 1094-1096, given the way _extract_channel takes: the channel is the
\* texture itself, None, or a new image
Extracted(images, texture, plan) ==
    IF plan = "raise"
    THEN /\ heap' = images
         /\ Raise("OSError")
         /\ UNCHANGED channel_images
    ELSE /\ Advance(Len(OutputChannels(CurrentEntry.mode.channels)), "merge")
         /\ IF plan = "none"
            THEN /\ heap' = images
                 /\ channel_images' = Append(channel_images, 0)
            ELSE IF plan = "same"
            THEN /\ heap' = images
                 /\ channel_images' = Append(channel_images, texture)
            ELSE /\ heap' = Append(images, ExtractedImage(images[texture], plan))
                 /\ channel_images' = Append(channel_images, Len(images) + 1)

\* line 1094: mapped_texture_type = _extract_channel(texture, texture_map_name)
ExtractInto(images, texture, texture_map_name) ==
    Extracted(images, texture, ExtractChannelPlan(images[texture], texture_map_name))

\* lines 1082-1096 for one output channel: a type that is not loaded under
\* the name before the first "." gets a fill image of its own
CollectFrom(texture_map_name, base_texture_type) ==
    IF GetOrDefault(loaded_textures, base_texture_type, 0) = 0
    THEN /\ missing_texture_maps' = Append(missing_texture_maps, base_texture_type)
         /\ ExtractInto(Append(heap, NewImageGrayscale(gen_target,
                                   DefaultMapValue(ConfigIndexCI(base_texture_type)))),
                        Len(heap) + 1, texture_map_name)
    ELSE /\ ExtractInto(heap, loaded_textures[base_texture_type], texture_map_name)
         /\ UNCHANGED missing_texture_maps

\* lines 1081-1096: one iteration of the channel loop
CollectChannel ==
    /\ pc = "collect"
    /\ CollectFrom(CurrentEntry.mode.channels[ChannelNames[loop_position]],
                   Lower(SplitDotFirst(
                       CurrentEntry.mode.channels[ChannelNames[loop_position]])))
    /\ UNCHANGED <<modeVars, buildVars, resolveVars, backup_directory,
                   gen_position, gen_target, loaded_textures, packed_texture,
                   filename, open_failures, outputs>>

\* Image.merge(mode, bands) raises: AttributeError for a band that is None,
\* OSError for one whose pixel data cannot be read, ValueError for bands of
\* different sizes; "" when it succeeds
MergeError(images, bands) ==
    IF \E k \in 1..Len(bands) : bands[k] = 0 THEN "AttributeError"
    ELSE IF \E k \in 1..Len(bands) : ~images[bands[k]].data_ok THEN "OSError"
    ELSE IF \E k \in 1..Len(bands) : images[bands[k]].size # images[bands[1]].size
    THEN "ValueError"
    ELSE ""

\* merge_channels(mode, channels): band k of the result is channel k
MergeChannelsImage(mode, images, bands) ==
    [mode |-> mode, size |-> images[bands[1]].size,
     px |-> [b \in { ChannelNames[k] : k \in 1..Len(bands) } |->
                images[bands[IndexIn(b, "RGBA")]].px["L"]],
     data_ok |-> TRUE, path |-> "", closed |-> FALSE]

\* line 1100: packed_texture = merge_channels(generated_image_mode, channels)
MergeChannels ==
    /\ pc = "merge"
    /\ IF MergeError(heap, channel_images) # ""
       THEN /\ Raise(MergeError(heap, channel_images))
            /\ UNCHANGED <<heap, packed_texture>>
       ELSE /\ heap' = Append(heap, MergeChannelsImage(
                           GeneratedImageMode(CurrentEntry.mode.channels),
                           heap, channel_images))
            /\ packed_texture' = Len(heap) + 1
            /\ pc' = "save"
            /\ UNCHANGED <<loop_position, raised>>
    /\ UNCHANGED <<modeVars, buildVars, resolveVars, backup_directory,
                   gen_position, gen_target, loaded_textures, channel_images,
                   missing_texture_maps, filename, open_failures, outputs>>

\* lines 1104-1109: the file name is made and the image handed to the save
\* collaborator, which persists it or raises
SaveGeneratedTexture ==
    /\ pc = "save"
    /\ \/ /\ outputs' = outputs \cup
                 { [filename |-> GeneratedFilename(CurrentEntry, gen_target),
                    mode     |-> heap[packed_texture].mode,
                    size     |-> heap[packed_texture].size,
                    px       |-> heap[packed_texture].px] }
          /\ pc' = "move"
          /\ UNCHANGED <<loop_position, raised>>
       \/ /\ Raise("OSError")
          /\ UNCHANGED outputs
    /\ UNCHANGED <<modeVars, buildVars, resolveVars, backup_directory,
                   gen_position, gen_target, heap, loaded_textures, channel_images,
                   packed_texture, missing_texture_maps, filename, open_failures>>

\* lines 1112-1115: the used maps go to the backup folder, if there is one,
\* and the file name is returned through the finally clause
MoveUsedMaps ==
    /\ pc = "move"
    /\ disk' = IF backup_directory # ""
               THEN MoveUsedMapsFrom(disk, CurrentMaps, 1, backup_directory)
               ELSE disk
    /\ filename' = GeneratedFilename(CurrentEntry, gen_target)
    /\ pc' = "finally"
    /\ UNCHANGED <<modeVars, initial_files, raw_textures, resolveVars,
                   backup_directory, gen_position, gen_target, heap,
                   loaded_textures, channel_images, packed_texture,
                   missing_texture_maps, loop_position, raised, open_failures,
                   outputs>>

\* handles_to_close of the finally clause
HandlesToClose ==
    { loaded_textures[k] : k \in DOMAIN loaded_textures }
      \cup { channel_images[k] : k \in 1..Len(channel_images) }
      \cup { packed_texture }

\* lines 1118-1122: the finally clause; then the call returns or the
\* exception goes on to the caller
Finally ==
    /\ pc = "finally"
    /\ heap' = CloseImageFiles(heap, HandlesToClose)
    /\ pc' = IF raised = "" THEN "returned" ELSE "raised"
    /\ UNCHANGED <<modeVars, buildVars, resolveVars, backup_directory,
                   gen_position, gen_target, loaded_textures, channel_images,
                   packed_texture, missing_texture_maps, loop_position, raised,
                   filename, open_failures, outputs>>

\* lines 236-239: a generated file marks the set processed and completed
\* (variant) a generated file marks the set processed only
MarkGeneratedProcessedOnly(raw, key, generated) ==
    IF generated THEN [raw EXCEPT ![key].processed = TRUE] ELSE raw

MarkGenerated(raw, key, generated) ==
    IF generated
    THEN [raw EXCEPT ![key].processed = TRUE, ![key].completed = TRUE]
    ELSE raw

\* lines 228-239: the call has returned, the generation loop goes on
AfterGenerate ==
    /\ pc = "returned"
    /\ raw_textures' = MarkGenerated(raw_textures, CurrentKey, filename # "")
    /\ gen_position' = gen_position + 1
    /\ pc' = "ready"
    /\ UNCHANGED <<modeVars, disk, initial_files, resolveVars, backup_directory,
                   gen_target, heap, loaded_textures, channel_images,
                   packed_texture, missing_texture_maps, loop_position, raised,
                   filename, open_failures, outputs>>

\* a line of the summary
LogLine(kind, texture_set, mode_name, file_name) ==
    [kind |-> kind, texture_set |-> texture_set, mode_name |-> mode_name,
     filename |-> file_name]

\* next((mode for mode in entries if mode.mode["mode_name"] == mode_name), None):
\* its position, 0 for None
FirstEntryNamed(entries, mode_name) ==
    IF \E k \in 1..Len(entries) : entries[k].mode.mode_name = mode_name
    THEN MinOf({ k \in 1..Len(entries) : entries[k].mode.mode_name = mode_name })
    ELSE 0

\* lines 1164-1172: the line of a mode that has an entry, if it gets one
CreatedLines(original_texture_set_name, mode_name, valid_packing_mode, target_texture_resolution, file_extension) ==
    IF GetOrDefault(target_texture_resolution, mode_name, <<0, 0>>) # <<0, 0>>
    THEN { LogLine("Created", original_texture_set_name, mode_name,
                   original_texture_set_name \o "_"
                     \o valid_packing_mode.packing_mode_suffix \o "." \o file_extension) }
    ELSE {}

\* lines 1145-1178: the lines of one configured mode
ModeResultLines(original_texture_set_name, mode_name, entries, k, target_texture_resolution, invalid_mode_names, invalid_dimensions, file_extension) ==
    IF mode_name \in invalid_mode_names
    THEN { LogLine(IF GetOrDefault(invalid_dimensions, mode_name, <<0, 0>>) = <<0, 0>>
                   THEN "Corrupted" ELSE "Invalid resolution",
                   original_texture_set_name, mode_name, "") }
    ELSE IF k # 0
    THEN CreatedLines(original_texture_set_name, mode_name, entries[k],
                      target_texture_resolution, file_extension)
    ELSE { LogLine("Skipped", original_texture_set_name, mode_name, "") }

\* _summarize_mode_results
SummarizeModeResults(original_texture_set_name, modes, entries, target_texture_resolution, invalid_mode_names, invalid_dimensions, file_extension) ==
    UNION { ModeResultLines(original_texture_set_name, modes[i].mode_name, entries,
                            FirstEntryNamed(entries, modes[i].mode_name),
                            target_texture_resolution, invalid_mode_names,
                            invalid_dimensions, file_extension) :
              i \in 1..Len(modes) }

\* lines 241-251: every ready mode of the set has been generated, the
\* summary of the set is reported and the per-set loop moves on.  An
\* exception of the call is caught nowhere: a run at "raised" has ended.
EndSet ==
    /\ pc = "ready"
    /\ gen_position > Len(valid_packing_modes_with_maps)
    /\ set_position' = set_position + 1
    /\ gen_position' = 1
    /\ pc' = "built"
    /\ log_lines' = log_lines \cup
          SummarizeModeResults(raw_textures[CurrentKey].texture_set_name,
                               valid_packing_modes, valid_packing_modes_with_maps,
                               expected_texture_resolution, invalid_mode_names_for_set,
                               invalid_resolution_for_summary, export_extension)
    /\ UNCHANGED <<modeVars, buildVars, settingVars, textures_to_scale,
                   suffix_mismatch_buffer,
                   valid_packing_modes_with_maps, mode_position, is_valid,
                   target_resolution, expected_texture_resolution,
                   invalid_mode_names_for_set, invalid_resolution_for_summary,
                   backup_directory, gen_target, heap, loaded_textures,
                   channel_images, packed_texture, missing_texture_maps,
                   loop_position, raised, filename, open_failures, outputs>>

(***************************************************************************)
(* SpecGen: the whole run for one folder - configuration, files, the       *)
(* per-set loop and, for every ready mode, the generation of its texture   *)
(***************************************************************************)
\* a file whose header can be read and whose pixel data cannot
TruncatedFile(size, mode, px) == [ImageFile(size, mode, px) EXCEPT !.data_ok = FALSE]

Rgb(r, g, b) == [c \in {"R", "G", "B"} |-> CASE c = "R" -> r [] c = "G" -> g [] OTHER -> b]

Gray(v) == [c \in {"L"} |-> v]

\* The files of the folder in this specification
GenFiles ==
    <<"Wall_Metalness.png", "Wall_Normal.png", "Wall_Roughness_2K.png", "wall_AO.png">>

\* what each of them may be
GenFileStates(name) ==
    CASE name = "Wall_Normal.png" ->
           { ImageFile(<<256, 256>>, "RGB", Rgb(10, 20, 30)),
             ImageFile(<<512, 512>>, "RGB", Rgb(10, 20, 30)),
             TruncatedFile(<<256, 256>>, "RGB", Rgb(10, 20, 30)),
             TruncatedFile(<<512, 512>>, "RGB", Rgb(10, 20, 30)) }
      [] name = "Wall_Roughness_2K.png" ->
           { ImageFile(<<256, 256>>, "L", Gray(77)),
             ImageFile(<<512, 512>>, "L", Gray(77)) }
      [] name = "wall_AO.png" ->
           { ImageFile(<<256, 256>>, "L", Gray(200)),
             ImageFile(<<512, 512>>, "RGB", Rgb(200, 200, 90)),
             ImageFile(<<256, 256>>, "RGB", Rgb(40, 80, 120)) }
      [] OTHER ->
           { ImageFile(<<256, 256>>, "L", Gray(5)),
             ImageFile(<<256, 256>>, "P", [c \in {"P"} |-> 1]) }

\* The modes a configuration is made of
GenModePool ==
    << SecondMode,
       [mode_name |-> "NRM", custom_suffix |-> "",
        channels |-> Channels("Normal.r", "Normal_G", "Roughness", "")],
       [mode_name |-> "ARE", custom_suffix |-> "",
        channels |-> Channels("AO", "Roughness", "Emissive_b", "")],
       [mode_name |-> "NRA", custom_suffix |-> "",
        channels |-> Channels("Normal", "Normal.g", "Roughness", "AO")],
       [mode_name |-> "NAR", custom_suffix |-> "",
        channels |-> Channels("Normal.r", "AO", "AO", "Roughness")],
       [mode_name |-> "ANP", custom_suffix |-> "",
        channels |-> Channels("AO", " AO ", "Normal.b", "")] >>

GenConfigs ==
    { <<GenModePool[1]>>,
      <<GenModePool[2], GenModePool[1]>>,
      <<GenModePool[3], GenModePool[4]>>,
      <<GenModePool[5], GenModePool[6]>> }

\* at most this many files of the folder are present
MaxGenFiles == 3

GenStrategies == { "up", "down" }

\* make_output_dirs: None without a BACKUP_FOLDER_NAME, else the folder's path
BackupDirectories == { "", JoinPath(InputFolder, "backup") }

InitGen ==
    /\ pc = "config"
    /\ IdleSetup
    /\ config_modes \in GenConfigs
    /\ PACKING_MODES = config_modes
    /\ valid_packing_modes = <<>>
    /\ RESIZE_STRATEGY \in GenStrategies
    /\ \E S \in SUBSET (1..Len(GenFiles)) :
         /\ Cardinality(S) <= MaxGenFiles
         /\ initial_files = SubSequence(GenFiles, S, 1)
         /\ \E states \in [ S -> UNION { GenFileStates(GenFiles[i]) : i \in S } ] :
              /\ \A i \in S : states[i] \in GenFileStates(GenFiles[i])
              /\ disk = [ path \in { JoinPath(InputFolder, GenFiles[i]) : i \in S } |->
                            states[CHOOSE i \in S : JoinPath(InputFolder, GenFiles[i]) = path] ]
    /\ raw_textures = EmptyDict
    /\ IdleResolve
    /\ backup_directory \in BackupDirectories
    /\ gen_position = 1
    /\ gen_target = <<0, 0>>
    /\ heap = <<>>
    /\ loaded_textures = EmptyDict
    /\ channel_images = <<>>
    /\ packed_texture = 0
    /\ missing_texture_maps = <<>>
    /\ loop_position = 1
    /\ raised = ""
    /\ filename = ""
    /\ open_failures = {}
    /\ outputs = {}

NextGen ==
    \/ ValidateModes
    \/ BuildSets
    \/ GetValidModes
    \/ CheckMode
    \/ FinalizeModes
    \/ StartGenerate
    \/ LoadTexture
    \/ FillOrScale
    \/ CollectChannel
    \/ MergeChannels
    \/ SaveGeneratedTexture
    \/ MoveUsedMaps
    \/ Finally
    \/ AfterGenerate
    \/ EndSet

SpecGen == InitGen /\ [][NextGen]_vars

(***************************************************************************)
(* SpecEndToEnd: whole runs over a folder with the sets Wall (files with a *)
(* declared size) and Rock (files without), for sizes of every bucket      *)
(***************************************************************************)
\* The files a folder is made of, in the order sorted() gives them
RockFiles == <<"Rock_Albedo.png", "Rock_Roughness.png">>

WallFiles == <<"Wall_Albedo_2K.png", "Wall_Normal_2K.png", "Wall_Roughness_2K.png">>

\* the Rock files when one of them declares a size
RockFilesSized == <<"Rock_Albedo.png", "Rock_Roughness_4K.png">>

EndToEndFolders == { WallFiles, RockFiles \o WallFiles, RockFilesSized \o WallFiles }

\* sizes whose larger dimension falls in each bucket of resolution_to_suffix
BucketSizes ==
    { <<256, 256>>, <<512, 512>>, <<1024, 256>>, <<2048, 2048>>, <<4096, 4096>>,
      <<8192, 8192>>, <<16384, 16384>> }

\* what each file may be
EndToEndFileStates(name) ==
    CASE name = "Wall_Albedo_2K.png" ->
           { ImageFile(sz, "RGB", Rgb(10, 20, 30)) : sz \in BucketSizes }
      [] name = "Wall_Normal_2K.png" ->
           { ImageFile(<<2048, 2048>>, "RGB", Rgb(128, 128, 255)),
             ImageFile(<<300, 300>>, "RGB", Rgb(128, 128, 255)),
             UnreadableFile }
      [] name = "Wall_Roughness_2K.png" ->
           { ImageFile(<<2048, 2048>>, "L", Gray(77)),
             ImageFile(<<4096, 4096>>, "L", Gray(77)),
             UnreadableFile }
      [] name = "Rock_Albedo.png" ->
           { ImageFile(<<1024, 1024>>, "RGB", Rgb(10, 20, 30)) }
      [] OTHER ->
           { ImageFile(<<1024, 1024>>, "L", Gray(77)),
             ImageFile(<<16384, 16384>>, "L", Gray(77)) }

\* mode "AG": R -> Albedo.r, G -> Albedo.g, nothing else configured
ModeAG ==
    [mode_name |-> "AG", custom_suffix |-> "",
     channels |-> Channels("Albedo.r", "Albedo.g", "", "")]

EndToEndModePool ==
    << ModeAG,
       [mode_name |-> "AGB", custom_suffix |-> "",
        channels |-> Channels("Albedo.r", "Albedo.g", "Albedo.b", "")],
       [mode_name |-> "AR", custom_suffix |-> "",
        channels |-> Channels("Albedo.r", "Albedo.g", "Roughness", "")],
       [mode_name |-> "NR", custom_suffix |-> "",
        channels |-> Channels("Normal.r", "Normal.g", "Roughness", "")],
       [mode_name |-> "Padded", custom_suffix |-> "",
        channels |-> Channels("Albedo.r", " Albedo.g ", "Roughness", "")],
       [mode_name |-> "Custom", custom_suffix |-> " ARM ",
        channels |-> Channels("Albedo.r", "Roughness", "Roughness", "")],
       [mode_name |-> " AR ", custom_suffix |-> "",
        channels |-> Channels("Albedo.r", "Albedo.g", "Roughness", "")] >>

EndToEndConfigs ==
    { <<EndToEndModePool[1]>>, <<EndToEndModePool[2]>>, <<EndToEndModePool[3]>>,
      <<EndToEndModePool[4], EndToEndModePool[3]>>,
      <<EndToEndModePool[5], EndToEndModePool[6]>>,
      <<EndToEndModePool[4], EndToEndModePool[7]>> }

InitEndToEnd ==
    /\ pc = "config"
    /\ IdleSetup
    /\ config_modes \in EndToEndConfigs
    /\ PACKING_MODES = config_modes
    /\ valid_packing_modes = <<>>
    /\ RESIZE_STRATEGY \in GenStrategies
    /\ initial_files \in EndToEndFolders
    /\ \E wa \in EndToEndFileStates("Wall_Albedo_2K.png"),
          wn \in EndToEndFileStates("Wall_Normal_2K.png"),
          wr \in EndToEndFileStates("Wall_Roughness_2K.png"),
          ra \in EndToEndFileStates("Rock_Albedo.png"),
          rr \in EndToEndFileStates("Rock_Roughness.png") :
         disk = [ path \in { JoinPath(InputFolder, initial_files[i]) :
                                i \in 1..Len(initial_files) } |->
                    CASE path = JoinPath(InputFolder, "Wall_Albedo_2K.png")    -> wa
                      [] path = JoinPath(InputFolder, "Wall_Normal_2K.png")    -> wn
                      [] path = JoinPath(InputFolder, "Wall_Roughness_2K.png") -> wr
                      [] path = JoinPath(InputFolder, "Rock_Albedo.png")       -> ra
                      [] OTHER                                                 -> rr ]
    /\ raw_textures = EmptyDict
    /\ IdleResolve
    /\ IdleGen

SpecEndToEnd == InitEndToEnd /\ [][NextGen]_vars

(***************************************************************************)
(* SpecRun: a whole run from the settings on: _validate_config,            *)
(* _validate_packing_modes, _validate_and_setup_files with                 *)
(* _preselect_required_textures, then the folder's sets                    *)
(***************************************************************************)
\* settings.ALLOWED_FILE_TYPES
ALLOWED_FILE_TYPES == {"png", "jpg", "jpeg", "tga"}

\* the characters validate_safe_folder_name looks for
InvalidFolderCharacters == "\\/:*?\"<>|"

\* validate_safe_folder_name(raw_folder_name) raises SystemExit
FolderNameExits(raw_folder_name) ==
    /\ Strip(raw_folder_name) # ""
    /\ \E i \in 1..Len(raw_folder_name) :
          IndexIn(Ch(raw_folder_name, i), InvalidFolderCharacters) # 0

\* str.lstrip(".")
RECURSIVE LStripDots(_)
LStripDots(s) == IF s # "" /\ Head(s) = "." THEN LStripDots(Tail(s)) ELSE s

\* context_validate_export_extension: typed_extension, file_extension
TypedExtension(file_type) == LStripDots(Lower(Strip(file_type)))

FileExtension(file_type) ==
    IF TypedExtension(file_type) = "jpg" THEN "jpeg" ELSE TypedExtension(file_type)

\* context_validate_export_extension raises SystemExit
ExtensionExits(file_type) ==
    FileExtension(file_type) = "" \/ FileExtension(file_type) \notin ALLOWED_FILE_TYPES

\* uses_alpha
UsesAlpha(modes) == \E i \in 1..Len(modes) : modes[i].channels["A"] # ""

\* _validate_config raises SystemExit
ValidateConfigExits(backup_name, target_name, file_type, modes) ==
    \/ FolderNameExits(backup_name)
    \/ FolderNameExits(target_name)
    \/ ExtensionExits(file_type)
    \/ UsesAlpha(modes) /\ Lower(FileExtension(file_type)) \in {"jpg", "jpeg", "jfif"}

\* the locals of the per-set loop
loopVars == <<set_position, valid_packing_modes_with_maps, mode_position, is_valid,
              target_resolution, expected_texture_resolution,
              invalid_mode_names_for_set, invalid_resolution_for_summary>>

\* lines 334-335: the local copy is lower-cased and compared; the setting
\* itself stays as written
UnknownResizeStrategy(resize_strategy) == Lower(resize_strategy) \notin {"up", "down"}

\* line 336: the warning, when the run gets to it
ResizeStrategyWarning(resize_strategy, exits) ==
    IF ~exits /\ UnknownResizeStrategy(resize_strategy)
    THEN { [kind |-> "Unknown RESIZE_STRATEGY", texture_set |-> "", mode_name |-> "",
            filename |-> ""] }
    ELSE {}

\* channel_packer line 74: _validate_config(RESIZE_STRATEGY, context)
ValidateConfig ==
    /\ pc = "start"
    /\ pc' = IF ValidateConfigExits(BACKUP_FOLDER_NAME, TARGET_FOLDER_NAME, FILE_TYPE,
                                    PACKING_MODES)
             THEN "exit" ELSE "config"
    /\ export_extension' =
         IF \/ FolderNameExits(BACKUP_FOLDER_NAME) \/ FolderNameExits(TARGET_FOLDER_NAME)
            \/ ExtensionExits(FILE_TYPE)
         THEN export_extension ELSE FileExtension(FILE_TYPE)
    /\ log_lines' = log_lines \cup
          ResizeStrategyWarning(RESIZE_STRATEGY,
              ValidateConfigExits(BACKUP_FOLDER_NAME, TARGET_FOLDER_NAME, FILE_TYPE,
                                  PACKING_MODES))
    /\ UNCHANGED <<modeVars, DELETE_USED, textures_to_scale, suffix_mismatch_buffer, buildVars, RESIZE_STRATEGY, FILE_TYPE, TARGET_FOLDER_NAME,
                   BACKUP_FOLDER_NAME, folder_files, files_listed, selection_paths_map,
                   pre_skipped_texture_sets_summary, created_directories, loopVars,
                   genVars>>

\* asset_name.rsplit(".", 1)[0]
RSplitDotHead(name) ==
    IF LastIndexIn(".", name) = 0 THEN name
    ELSE SubSeq(name, 1, LastIndexIn(".", name) - 1)

\* base.rsplit("_", 1)[-1]
RSplitUnderscoreLast(s) == From(s, LastIndexIn("_", s) + 1)

\* lines 545-549: the name without its size suffix and the separator before it
BaseWithoutSize(asset_name_no_ext, size) ==
    IF size # "" THEN SubSeq(asset_name_no_ext, 1, Len(asset_name_no_ext) - (Len(size) + 1))
    ELSE asset_name_no_ext

\* lines 570-571: "_".join(name.split("_")[:-1]) if "_" in name else name,
\* and the name itself when that is empty
DerivedAssetName(asset_name_no_ext) ==
    IF LastIndexIn("_", asset_name_no_ext) = 0 THEN asset_name_no_ext
    ELSE IF LastIndexIn("_", asset_name_no_ext) = 1 THEN asset_name_no_ext
    ELSE SubSeq(asset_name_no_ext, 1, LastIndexIn("_", asset_name_no_ext) - 1)

\* line 534: packed_textures_suffixes
PackedTexturesSuffixes(modes) ==
    { Upper(ExtractModeName(modes[i])) :
        i \in { j \in 1..Len(modes) : ExtractModeName(modes[j]) # "" } }

\* What the file loop (lines 539-576) derives from one name
PreselectInfoWith(asset_name_no_ext, info) ==
    [maybe_suffix |-> Upper(RSplitUnderscoreLast(
                         BaseWithoutSize(asset_name_no_ext,
                                         DetectSizeSuffix(asset_name_no_ext)))),
     typed        |-> info.matched,
     display_name |-> IF info.matched THEN info.texture_set_name
                      ELSE DerivedAssetName(asset_name_no_ext),
     texture_type |-> IF info.matched THEN Lower(info.texture_type) ELSE ""]

PreselectInfo(asset_name) ==
    PreselectInfoWith(RSplitDotHead(asset_name), ExtractInfoFromTextureSetName(asset_name))

\* The loop's result is a pure function of the name: it is computed once for
\* the names the specifications use.
PreselectInfoOf == [n \in KnownFileNames |-> PreselectInfo(n)]

PreselectedInfo(key) == PreselectInfoOf[key]

\* texture_id = f"{group_folder}:{texture_set_name.lower()}", the folder being "."
TextureIdOfName(display_name) == ".:" \o Lower(display_name)

TextureIdOf(key) == TextureIdOfName(PreselectedInfo(key).display_name)

\* the positions of the files line 552 does not pass over
KeptFiles(files, suffixes) ==
    { i \in 1..Len(files) : PreselectedInfo(files[i]).maybe_suffix \notin suffixes }

\* texture_sets after the file loop (kept: the positions of its files): the
\* ids, and per id the display name (that of the first file of the entry),
\* the types and the files
TextureSetIds(files, kept) == { TextureIdOf(files[i]) : i \in kept }

EntryDisplayName(files, kept, texture_id) ==
    PreselectedInfo(files[MinOf({ i \in kept : TextureIdOf(files[i]) = texture_id })])
        .display_name

EntryTypes(files, kept, texture_id) ==
    { PreselectedInfo(files[i]).texture_type :
        i \in { j \in kept : /\ TextureIdOf(files[j]) = texture_id
                             /\ PreselectedInfo(files[j]).typed } }

EntryFiles(files, kept, texture_id) ==
    { files[i] : i \in { j \in kept : TextureIdOf(files[j]) = texture_id } }

\* line 603
PreselectRule(required_textures, present_textures) ==
    \/ Cardinality(required_textures) <= 2 /\ present_textures = required_textures
    \/ Cardinality(required_textures) > 2 /\ Cardinality(present_textures) >= 2

\* lines 589-611 for a set of the given types: the modes that let it pass,
\* whether it qualifies, and available_required_maps
QualifyingModes(modes, available_tex_types) ==
    { i \in 1..Len(modes) :
        PreselectRule(RequiredBaseTextureMapTypesForMode(modes[i]),
                      RequiredBaseTextureMapTypesForMode(modes[i]) \cap available_tex_types) }

SetQualifies(modes, available_tex_types) ==
    available_tex_types # {} /\ QualifyingModes(modes, available_tex_types) # {}

\* (variant) only the first qualifying mode contributes its present types
AvailableRequiredMapsOfFirstMode(modes, available_tex_types) ==
    UNION { RequiredBaseTextureMapTypesForMode(modes[i]) \cap available_tex_types :
              i \in { j \in QualifyingModes(modes, available_tex_types) :
                        \A k \in QualifyingModes(modes, available_tex_types) : j <= k } }

AvailableRequiredMaps(modes, available_tex_types) ==
    UNION { RequiredBaseTextureMapTypesForMode(modes[i]) \cap available_tex_types :
              i \in QualifyingModes(modes, available_tex_types) }

\* the file at position j is of a required type of a qualifying set whose
\* types are available_tex_types
FileSelected(info, modes, available_tex_types) ==
    /\ info.typed
    /\ SetQualifies(modes, available_tex_types)
    /\ info.texture_type \in AvailableRequiredMaps(modes, available_tex_types)

\* lines 637-644: selected_textures_paths
SelectedTexturesPaths(files, kept, modes) ==
    { files[i] :
        i \in { j \in kept :
                  FileSelected(PreselectedInfo(files[j]), modes,
                               EntryTypes(files, kept, TextureIdOf(files[j]))) } }

\* lines 614-634: the skipped sets, display name -> files
SkippedDisplayNames(files, kept, modes) ==
    { EntryDisplayName(files, kept, texture_id) :
        texture_id \in { t \in TextureSetIds(files, kept) :
                           ~SetQualifies(modes, EntryTypes(files, kept, t)) } }

PreSkippedTextureSets(files, kept, modes) ==
    [ display_set_name \in SkippedDisplayNames(files, kept, modes)
      |-> EntryFiles(files, kept, TextureIdOfName(display_set_name)) ]

\* the selection is replaced; split_by_parent gives the folder's group, sorted
Selected(selection) ==
    /\ selection_paths_map' = selection
    /\ initial_files' = SortedKeys(selection)

\* _preselect_required_textures, kept being the positions of the files its
\* loop does not pass over
PreselectRequiredTextures(kept) ==
    /\ Selected(SelectedTexturesPaths(folder_files, kept, valid_packing_modes))
    /\ pre_skipped_texture_sets_summary' =
         PreSkippedTextureSets(folder_files, kept, valid_packing_modes)

\* lines 359-360 without a valid mode: the selection stays the listing
KeepListing ==
    /\ Selected({ folder_files[i] : i \in 1..Len(folder_files) })
    /\ UNCHANGED pre_skipped_texture_sets_summary

\* channel_packer line 76: _validate_and_setup_files
SetupFiles ==
    /\ pc = "validated"
    /\ files_listed' = TRUE
    /\ IF folder_files = <<>>
       THEN /\ pc' = "exit"
            /\ UNCHANGED <<selection_paths_map, pre_skipped_texture_sets_summary,
                           initial_files>>
       ELSE /\ pc' = "selected"
            /\ IF valid_packing_modes = <<>> THEN KeepListing
               ELSE PreselectRequiredTextures(
                      KeptFiles(folder_files, PackedTexturesSuffixes(valid_packing_modes)))
    /\ UNCHANGED <<modeVars, DELETE_USED, reportVars, disk, raw_textures, RESIZE_STRATEGY, FILE_TYPE,
                   TARGET_FOLDER_NAME, BACKUP_FOLDER_NAME, export_extension, folder_files,
                   created_directories, loopVars, genVars>>

\* make_output_dirs: the directories it makes and its second result
TargetFolderDirectory(base_directory, target_folder_name) ==
    IF Strip(target_folder_name) # "" THEN JoinPath(base_directory, Strip(target_folder_name))
    ELSE base_directory

BackupFolderDirectory(base_directory, backup_folder_name) ==
    IF Strip(backup_folder_name) # "" THEN JoinPath(base_directory, Strip(backup_folder_name))
    ELSE ""

MakeOutputDirs(base_directory, target_folder_name, backup_folder_name) ==
    { TargetFolderDirectory(base_directory, target_folder_name) }
      \cup (IF Strip(backup_folder_name) # ""
            THEN { BackupFolderDirectory(base_directory, backup_folder_name) } ELSE {})

\* channel_packer lines 93-107 for the folder's group, if there is one:
\* make_output_dirs, then _build_texture_sets
BuildSelected ==
    /\ pc = "selected"
    /\ created_directories' =
         IF initial_files = <<>> THEN created_directories
         ELSE MakeOutputDirs(InputFolder, TARGET_FOLDER_NAME, BACKUP_FOLDER_NAME)
    /\ backup_directory' =
         IF initial_files = <<>> THEN backup_directory
         ELSE BackupFolderDirectory(InputFolder, BACKUP_FOLDER_NAME)
    /\ raw_textures' = BuildTextureSets(InputFolder, initial_files, disk)
    /\ pc' = "built"
    /\ set_position' = 1
    /\ UNCHANGED <<modeVars, DELETE_USED, reportVars, disk, initial_files, RESIZE_STRATEGY, FILE_TYPE,
                   TARGET_FOLDER_NAME, BACKUP_FOLDER_NAME, export_extension, folder_files,
                   files_listed, selection_paths_map, pre_skipped_texture_sets_summary,
                   valid_packing_modes_with_maps, mode_position, is_valid,
                   target_resolution, expected_texture_resolution,
                   invalid_mode_names_for_set, invalid_resolution_for_summary,
                   gen_position, gen_target, heap, loaded_textures, channel_images,
                   packed_texture, missing_texture_maps, loop_position, raised,
                   filename, open_failures, outputs>>

\* lines 243-252: the sets pre-selection skipped are reported
SkippedSetLines(skipped_files_by_set) ==
    { LogLine("Skipped set", display_name, "", "") :
        display_name \in DOMAIN skipped_files_by_set }

\* prepare_workspace: the absolute path of a selected file
AbsolutePath(relative_path) == JoinPath(InputFolder, relative_path)

\* cleanup(context): with DELETE_USED every selected file that is still at
\* its path is removed
Cleanup(d, selection, delete_used) ==
    [ path \in DOMAIN d |->
        IF delete_used /\ path \in { AbsolutePath(key) : key \in selection }
        THEN [d[path] EXCEPT !.exists = FALSE] ELSE d[path] ]

\* lines 242-295: the per-set loop is over; the final summary, then cleanup
Finish ==
    /\ pc = "built"
    /\ set_position > Len(SetOrder)
    /\ log_lines' = log_lines \cup SkippedSetLines(pre_skipped_texture_sets_summary)
    /\ disk' = Cleanup(disk, selection_paths_map, DELETE_USED)
    /\ pc' = "done"
    /\ UNCHANGED <<modeVars, initial_files, raw_textures, settingVars,
                   textures_to_scale, suffix_mismatch_buffer, set_position,
                   valid_packing_modes_with_maps, mode_position, is_valid,
                   target_resolution, expected_texture_resolution,
                   invalid_mode_names_for_set, invalid_resolution_for_summary,
                   genVars>>

\* The settings, configurations and folders of this specification
RunFileTypes == { "png", " .JPG", "bmp" }

RunStrategies == { "up", "down", "UP", "fit" }

RunTargetFolderNames == { "created_maps", "out:put" }

RunBackupFolderNames == { "", "backup", "old?" }

RunModePool ==
    << [mode_name |-> "AR", custom_suffix |-> "",
        channels |-> Channels("Albedo.r", "Albedo.g", "Roughness", "")],
       [mode_name |-> "NR", custom_suffix |-> "",
        channels |-> Channels("Normal.r", "Normal.g", "Roughness", "")],
       [mode_name |-> "NRA", custom_suffix |-> "",
        channels |-> Channels("Normal.r", "Normal.g", "Roughness", "Albedo.r")],
       [mode_name |-> "ARN", custom_suffix |-> "",
        channels |-> Channels("Albedo.r", "Albedo.g", "Roughness", "Normal.")],
       [mode_name |-> "ARn", custom_suffix |-> "",
        channels |-> Channels("Albedo.r", "Albedo.g", "Roughness", "Normal")],
       [mode_name |-> "AF", custom_suffix |-> "",
        channels |-> Channels("Albedo.r", "Foo", "Roughness", "")],
       [mode_name |-> " ", custom_suffix |-> "",
        channels |-> Channels("Albedo.r", "Albedo.g", "Roughness", "")],
       [mode_name |-> "NN", custom_suffix |-> "",
        channels |-> Channels("Normal.r", "Normal.g", "Normal.b", "")] >>

RunConfigs ==
    { <<>>, <<RunModePool[1]>>, <<RunModePool[2], RunModePool[1]>>, <<RunModePool[3]>>,
      <<RunModePool[4]>>, <<RunModePool[5]>>, <<RunModePool[6]>>, <<RunModePool[7]>>,
      <<ModeAG>>, <<RunModePool[8]>> }

RunFolders ==
    { <<>>,
      <<"Logo.png", "My_Logo.png">>,
      <<"Logo.png", "Wall_Albedo_2K.png", "Wall_Logo.png", "Wall_Normal_2K.png",
        "Wall_Roughness_2K.png">>,
      <<"Rock_Albedo.png", "Wall_Albedo_2K.png", "Wall_Roughness_2K.png">>,
      <<"Rock_Albedo.png", "Rock_Roughness.png", "Wall_Albedo_2K.png",
        "Wall_Roughness_2K.png">> }

RunFileState(name) ==
    CASE name = "Wall_Roughness_2K.png" -> ImageFile(<<2048, 2048>>, "L", Gray(77))
      [] name = "Rock_Roughness.png" -> ImageFile(<<300, 200>>, "L", Gray(77))
      [] name \in {"Logo.png", "My_Logo.png", "Wall_Logo.png"} ->
           ImageFile(<<300, 200>>, "RGB", Rgb(1, 2, 3))
      [] OTHER -> ImageFile(<<2048, 2048>>, "RGB", Rgb(10, 20, 30))

InitRun ==
    /\ pc = "start"
    /\ FILE_TYPE \in RunFileTypes
    /\ TARGET_FOLDER_NAME \in RunTargetFolderNames
    /\ BACKUP_FOLDER_NAME \in RunBackupFolderNames
    /\ export_extension = ""
    /\ folder_files \in RunFolders
    /\ files_listed = FALSE
    /\ selection_paths_map = {}
    /\ pre_skipped_texture_sets_summary = EmptyDict
    /\ created_directories = {}
    /\ DELETE_USED \in BOOLEAN
    /\ textures_to_scale = <<>>
    /\ suffix_mismatch_buffer = <<>>
    /\ log_lines = {}
    /\ config_modes \in RunConfigs
    /\ PACKING_MODES = config_modes
    /\ valid_packing_modes = <<>>
    /\ RESIZE_STRATEGY \in RunStrategies
    /\ initial_files = <<>>
    /\ disk = [ path \in { JoinPath(InputFolder, folder_files[i]) :
                             i \in 1..Len(folder_files) } |->
                  RunFileState(Basename(path)) ]
    /\ raw_textures = EmptyDict
    /\ IdleResolve
    /\ IdleGen

NextRun ==
    \/ ValidateConfig
    \/ ValidateModes
    \/ SetupFiles
    \/ BuildSelected
    \/ GetValidModes
    \/ CheckMode
    \/ FinalizeModes
    \/ StartGenerate
    \/ LoadTexture
    \/ FillOrScale
    \/ CollectChannel
    \/ MergeChannels
    \/ SaveGeneratedTexture
    \/ MoveUsedMaps
    \/ Finally
    \/ AfterGenerate
    \/ EndSet
    \/ Finish

SpecRun == InitRun /\ [][NextRun]_vars

(***************************************************************************)
(* Claims about _validate_packing_modes                                    *)
(***************************************************************************)
\* The grammar of a source reference, read off the value itself:
\* <type-token>[('.'|'_')<r|g|b>], surrounding blanks ignored.
RefToken(v) == LET t == Strip(v) IN Lower(SubSeq(t, 1, AlnumPrefixLen(t)))

RefTail(v) == LET t == Strip(v) IN SubSeq(t, AlnumPrefixLen(t) + 1, Len(t))

\* the explicit component of a reference, "" when it has none
RefComponent(v) ==
    LET tl == RefTail(v) IN
    IF Len(tl) = 2 /\ IsDotOrUnderscore(Ch(tl, 1)) /\ LowerCh(Ch(tl, 2)) \in {"r", "g", "b"}
    THEN LowerCh(Ch(tl, 2)) ELSE ""

\* kind of the configured type the reference names, "" when it names none
RefKind(v) ==
    LET ci == ConfigIndexCI(RefToken(v)) IN IF ci = 0 THEN "" ELSE TEXTURE_CONFIG[ci].kind

WellFormedRef(v) ==
    /\ RefToken(v) # ""
    /\ RefKind(v) # ""
    /\ RefTail(v) = "" \/ RefComponent(v) # ""

ValidationOver == pc \in {"validated", "exit"}

NamedModeIndexes == { i \in 1..Len(config_modes) : Strip(config_modes[i].mode_name) # "" }

\* C8 (as claimed): a three-channel type referenced without a component becomes
\* <type>.<slot letter> in R, G, B and is fatal in A; hence the A slot of every
\* returned mode is unset, a single-channel type, or a three-channel type with
\* an explicit component.
C8_AlphaNeverAmbiguous ==
    ValidationOver =>
      /\ \A i \in NamedModeIndexes : \A c \in {"R", "G", "B", "A"} :
            LET v == config_modes[i].channels[c] IN
            (v # "" /\ WellFormedRef(v) /\ RefKind(v) = "RGB" /\ RefComponent(v) = "")
              => IF c = "A" THEN pc = "exit"
                 ELSE pc = "validated" =>
                        PACKING_MODES[i].channels[c] = RefToken(v) \o "." \o Lower(c)
      /\ pc = "validated" =>
            \A k \in 1..Len(valid_packing_modes) :
                LET a == valid_packing_modes[k].channels["A"] IN
                a = "" \/ RefKind(a) = "G" \/ (RefKind(a) = "RGB" /\ RefComponent(a) # "")

\* C9 (as claimed): in a named mode a missing R, G or B slot, a value outside
\* the grammar or an unknown type-token terminates the process, and no such
\* value is in the returned modes.
C9_MalformedSlotIsFatal ==
    ValidationOver =>
      /\ (\E i \in NamedModeIndexes : \E c \in {"R", "G", "B", "A"} :
              LET v == config_modes[i].channels[c] IN
              (v = "" /\ c # "A") \/ (v # "" /\ ~WellFormedRef(v)))
            => pc = "exit"
      /\ pc = "validated" =>
            \A k \in 1..Len(valid_packing_modes) : \A c \in {"R", "G", "B", "A"} :
                LET v == valid_packing_modes[k].channels[c] IN
                v = "" \/ WellFormedRef(v)

(***************************************************************************)
(* Claims about _build_texture_sets                                        *)
(***************************************************************************)
\* the files of the folder that classify to (set key, type)
FilesOf(key, type) ==
    { i \in 1..Len(initial_files) :
        LET info == ExtractInfoFromTextureSetName(initial_files[i]) IN
        info.matched /\ Lower(info.texture_set_name) = key /\ info.texture_type = type }

\* C1 (as claimed): for every (set, type) the set keeps the entry with the
\* largest width*height among the files that classify to it, whatever their
\* order (stated for the files whose resolution can be read).
C1_LargestAreaKept ==
    pc = "built" =>
      \A key \in DOMAIN raw_textures :
        \A type \in DOMAIN raw_textures[key].available_texture_maps :
          (\A i \in FilesOf(key, type) : CanOpen(disk, JoinPath(InputFolder, initial_files[i])))
          => \A i \in FilesOf(key, type) :
               Area(raw_textures[key].available_texture_maps[type].resolution)
                 >= Area(ExtractImageData(disk, JoinPath(InputFolder, initial_files[i])))

\* where the name, read from position i, has shape number `shape` for an alias:
\* 1 alias then size, 2 size then alias, 3 the alias alone
ShapeStarts(name_lower, alias, size, shape) ==
    { i \in 1..Len(name_lower) :
        CASE shape = 1 -> size # "" /\ TwoTokenSuffixMatches(From(name_lower, i), alias, size)
          [] shape = 2 -> size # "" /\ TwoTokenSuffixMatches(From(name_lower, i), size, alias)
          [] OTHER     -> OnlyTypeSuffixMatches(From(name_lower, i), alias) }

\* <<type, alias, shape>> numbers under which the name matches
ShapeCandidates(name) ==
    { c \in (1..Len(TEXTURE_CONFIG)) \X (1..11) \X (1..3) :
        /\ c[2] <= Len(TEXTURE_CONFIG[c[1]].suffixes)
        /\ ShapeStarts(Lower(name), Lower(TEXTURE_CONFIG[c[1]].suffixes[c[2]]),
                       DetectSizeSuffix(name), c[3]) # {} }

\* c comes before d: earlier type, then earlier alias, then earlier shape
ComesBefore(c, d) ==
    \/ c[1] < d[1]
    \/ c[1] = d[1] /\ c[2] < d[2]
    \/ c[1] = d[1] /\ c[2] = d[2] /\ c[3] <= d[3]

\* what the claim gives a file name: untyped, or the type of the first
\* candidate and the text before its match without trailing separators
ClaimedInfo(file) ==
    LET name  == SplitExtRoot(file)
        cands == ShapeCandidates(name)
    IN  IF cands = {} THEN [typed |-> FALSE, set |-> "", type |-> ""]
        ELSE LET c == CHOOSE x \in cands : \A y \in cands : ComesBefore(x, y)
                 start == MinOf(ShapeStarts(Lower(name),
                                    Lower(TEXTURE_CONFIG[c[1]].suffixes[c[2]]),
                                    DetectSizeSuffix(name), c[3]))
             IN [typed |-> TRUE,
                 set   |-> RStripSeparators(SubSeq(name, 1, start - 1)),
                 type  |-> Lower(TEXTURE_CONFIG[c[1]].name)]

ClaimedInfoOf == [n \in KnownFileNames |-> ClaimedInfo(n)]

\* C16: every file is classified by the first of its matches, taking the
\* types in configuration order, each type's aliases in list order and for
\* each alias the shapes alias-then-size, size-then-alias, alias alone; the
\* set name is the text before the match without trailing '_', '-', '.';
\* a file without a match is untyped and enters no set.
C16_FirstMatchClassifies ==
    pc = "built" =>
      /\ \A i \in 1..Len(initial_files) :
            ClaimedInfoOf[initial_files[i]].typed =>
              /\ Lower(ClaimedInfoOf[initial_files[i]].set) \in DOMAIN raw_textures
              /\ raw_textures[Lower(ClaimedInfoOf[initial_files[i]].set)].texture_set_name
                    \in { ClaimedInfoOf[initial_files[j]].set : j \in 1..Len(initial_files) }
              /\ ClaimedInfoOf[initial_files[i]].type \in
                    DOMAIN raw_textures[Lower(ClaimedInfoOf[initial_files[i]].set)]
                             .available_texture_maps
      /\ \A key \in DOMAIN raw_textures :
            \A type \in DOMAIN raw_textures[key].available_texture_maps :
              \E i \in 1..Len(initial_files) :
                /\ ClaimedInfoOf[initial_files[i]].typed
                /\ Lower(ClaimedInfoOf[initial_files[i]].set) = key
                /\ ClaimedInfoOf[initial_files[i]].type = type
                /\ raw_textures[key].available_texture_maps[type].file_path =
                      JoinPath(InputFolder, initial_files[i])

\* a folder with a size-then-alias name, a name two types' aliases end, and
\* an untyped name, classified
C16_Witness ==
    /\ pc = "built"
    /\ initial_files = <<"Logo.png", "Rock_2K_Normal.png", "Wall_nor_gl.png">>
    /\ DOMAIN raw_textures = {"rock", "wall"}
    /\ DOMAIN raw_textures["rock"].available_texture_maps = {"normal"}
    /\ DOMAIN raw_textures["wall"].available_texture_maps = {"normal"}

(***************************************************************************)
(* Claims about the per-set loop: qualification and target resolution      *)
(***************************************************************************)
\* the resolutions of the maps of a mode's subset (None included)
SubsetResolutions(entry) ==
    { entry.texture_maps_for_mode[i].data.resolution :
        i \in 1..Len(entry.texture_maps_for_mode) }

\* the entry whose resolution check has just been made
CheckedEntry == valid_packing_modes_with_maps[mode_position - 1]

JustChecked == pc = "check" /\ mode_position > 1

\* C2 (as claimed): a 300x300 map in a qualifying mode's subset makes the
\* resolution check report the mode invalid, whatever the strategy and the
\* sizes of the other maps, and the mode is not among those left to generate.
C2_NonPowerOfTwoInvalidates ==
    /\ (JustChecked /\ <<300, 300>> \in SubsetResolutions(CheckedEntry)) => ~is_valid
    /\ pc = "ready" =>
         \A k \in 1..Len(valid_packing_modes_with_maps) :
            <<300, 300>> \notin SubsetResolutions(valid_packing_modes_with_maps[k])

\* the types a mode requires and those of them the current set has
RequiredOf(mode) == RequiredBaseTextureMapTypesForMode(mode)

PresentOf(mode) ==
    RequiredOf(mode) \cap DOMAIN raw_textures[CurrentKey].available_texture_maps

AreaMin(resolutions) ==
    CHOOSE a \in { Area(r) : r \in resolutions } : \A r \in resolutions : a <= Area(r)

AreaMax(resolutions) ==
    CHOOSE a \in { Area(r) : r \in resolutions } : \A r \in resolutions : a >= Area(r)

BothDimensionsPowerOfTwo(r) ==
    (\E k \in 0..10 : r[1] = 2^k) /\ (\E k \in 0..10 : r[2] = 2^k)

CallEnded == pc \in {"returned", "raised"}

\* every image the call opened can be read and is of a mode it supports
SourcesIntact ==
    \A i \in 1..Len(heap) : heap[i].data_ok /\ heap[i].mode \in {"L", "RGB", "RGBA"}

\* the closed flat fill of a type's configured default at the target resolution
DefaultFillOf(texture_type) ==
    CloseImage(NewImageGrayscale(gen_target,
                   TEXTURE_CONFIG[ConfigIndexCI(Lower(texture_type))].fill))

\* C3 (as claimed): when open_image fails for a map of the mode (and nothing
\* else is wrong with the sources), the call still returns a file name, no
\* exception leaves it, and the failed map has been replaced by a flat fill
\* of its type's configured default at the target resolution.
C3_OpenFailureDegradesToFill ==
    (CallEnded /\ open_failures # {} /\ SourcesIntact) =>
        /\ pc = "returned"
        /\ filename # ""
        /\ \A t \in open_failures :
              /\ loaded_textures[t] # 0
              /\ heap[loaded_textures[t]] = DefaultFillOf(t)

\* the file the current mode uses for a type
SourceFileOf(texture_type) ==
    disk[CurrentMaps[DictGet(CurrentMaps, texture_type)].data.file_path]

\* the slots of the output of the current mode
OutputSlots ==
    { OutputChannels(CurrentEntry.mode.channels)[k] :
        k \in 1..Len(OutputChannels(CurrentEntry.mode.channels)) }

\* slot c of the current mode names a three-channel type with an explicit
\* component, and the mode has an RGB/RGBA file of that type
ExplicitComponentSlot(c) ==
    /\ RefKind(CurrentEntry.mode.channels[c]) = "RGB"
    /\ RefComponent(CurrentEntry.mode.channels[c]) # ""
    /\ RefToken(CurrentEntry.mode.channels[c]) \in DictKeys(CurrentMaps)
    /\ SourceFileOf(RefToken(CurrentEntry.mode.channels[c])).mode \in {"RGB", "RGBA"}

\* C6 (as claimed): a slot that names a three-channel type with an explicit
\* component, written with '.' or with '_', and whose source is a present
\* RGB/RGBA file, carries exactly that component of the source in the output.
C6_ExplicitComponentExtracted ==
    (pc = "returned" /\ filename # "") =>
        \A c \in OutputSlots :
            ExplicitComponentSlot(c) =>
                heap[packed_texture].px[c] =
                    SourceFileOf(RefToken(CurrentEntry.mode.channels[c]))
                        .px[Upper(RefComponent(CurrentEntry.mode.channels[c]))]

\* slot c of the current mode references a type the set has no map of
AbsentTypeSlot(c) ==
    RefToken(CurrentEntry.mode.channels[c]) \notin DictKeys(CurrentMaps)

\* C7 (as claimed): the output of a mode of three or more types, one of them
\* absent from the set, has in every channel that references the absent type
\* the flat fill of that type's configured default.
C7_AbsentTypeGetsItsDefault ==
    (/\ pc = "returned" /\ filename # ""
     /\ Cardinality(RequiredOf(CurrentEntry.mode)) >= 3) =>
        \A c \in OutputSlots :
            AbsentTypeSlot(c) =>
                heap[packed_texture].px[c] =
                    TEXTURE_CONFIG[ConfigIndexCI(RefToken(CurrentEntry.mode.channels[c]))].fill

\* slot c of the current mode names a single-channel type, and the texture
\* loaded under the slot's name (line 1082) comes from an RGB/RGBA file
SingleChannelRgbSlot(c) ==
    /\ RefKind(CurrentEntry.mode.channels[c]) = "G"
    /\ Lower(SplitDotFirst(CurrentEntry.mode.channels[c])) \in DictKeys(CurrentMaps)
    /\ SourceFileOf(RefToken(CurrentEntry.mode.channels[c])).mode \in {"RGB", "RGBA"}

\* C14: a slot of a single-channel type whose source was loaded from an
\* RGB/RGBA file carries the file's R channel when its R and G channels are
\* identical, and the weighted grayscale of the file only when they differ.
C14_GrayscaleSavedAsRgb ==
    (pc = "returned" /\ filename # "") =>
        \A c \in OutputSlots :
            SingleChannelRgbSlot(c) =>
                heap[packed_texture].px[c] =
                    IF SourceFileOf(RefToken(CurrentEntry.mode.channels[c])).px["R"] =
                       SourceFileOf(RefToken(CurrentEntry.mode.channels[c])).px["G"]
                    THEN SourceFileOf(RefToken(CurrentEntry.mode.channels[c])).px["R"]
                    ELSE Luma(SourceFileOf(RefToken(CurrentEntry.mode.channels[c])).px)

\* an output whose slot R was taken from an AO file saved as RGB with
\* R = G = 200 and B = 90
C14_Witness ==
    /\ pc = "returned" /\ filename # ""
    /\ SingleChannelRgbSlot("R")
    /\ SourceFileOf(RefToken(CurrentEntry.mode.channels["R"])).px = Rgb(200, 200, 90)
    /\ heap[packed_texture].px["R"] = 200

\* slots c and d of the current mode reference one single-channel type
SameSingleChannelType(c, d) ==
    /\ c # d
    /\ RefKind(CurrentEntry.mode.channels[c]) = "G"
    /\ RefToken(CurrentEntry.mode.channels[c]) = RefToken(CurrentEntry.mode.channels[d])

\* C15 (as claimed): when a mode maps one single-channel type to two output
\* slots, the two channels of the output are identical, whether the type's
\* map is an L file, an RGB file or absent and filled with the default.
C15_SameTypeSameChannel ==
    (pc = "returned" /\ filename # "") =>
        \A c \in OutputSlots, d \in OutputSlots :
            SameSingleChannelType(c, d) =>
                heap[packed_texture].px[c] = heap[packed_texture].px[d]

\* C10 (as claimed): when the call has ended, by return or by exception,
\* every image it opened, resized, filled, extracted or merged is closed.
C10_EveryHandleClosed ==
    CallEnded => \A i \in 1..Len(heap) : heap[i].closed

(***************************************************************************)
(* Claims about whole runs                                                 *)
(***************************************************************************)
\* the run is over: validation has ended it, an exception has, or the
\* per-set loop has gone through every set
RunEnded ==
    \/ pc \in {"exit", "raised"}
    \/ pc = "built" /\ set_position > Len(SetOrder)

\* the folder holds the three Wall files, all 2048 x 2048: albedo and normal
\* as RGB, roughness single-channel; the only mode is AG
EndToEndExample ==
    /\ config_modes = <<ModeAG>>
    /\ initial_files = WallFiles
    /\ \A i \in 1..Len(WallFiles) :
          /\ disk[JoinPath(InputFolder, WallFiles[i])].header_ok
          /\ disk[JoinPath(InputFolder, WallFiles[i])].size = <<2048, 2048>>
          /\ disk[JoinPath(InputFolder, WallFiles[i])].mode =
                IF WallFiles[i] = "Wall_Roughness_2K.png" THEN "L" ELSE "RGB"

\* C11 (as claimed): with the three Wall files at 2048 x 2048 and the single
\* mode AG (R -> Albedo.r, G -> Albedo.g), the finished run has produced
\* exactly one output, named Wall_AG_2K, at 2048 x 2048.
C11_EndToEndExample ==
    (EndToEndExample /\ RunEnded) =>
        /\ Cardinality(outputs) = 1
        /\ \A o \in outputs : o.filename = "Wall_AG_2K" /\ o.size = <<2048, 2048>>

\* the bucket of a dimension d
ClaimedBucket(d) ==
    CASE d <= 512               -> "512"
      [] d > 512  /\ d <= 1024  -> "1K"
      [] d > 1024 /\ d <= 2048  -> "2K"
      [] d > 2048 /\ d <= 4096  -> "4K"
      [] d > 4096 /\ d <= 8192  -> "8K"
      [] OTHER                  -> ToString(d) \o "px"

LargerDimension(size) == CHOOSE d \in {size[1], size[2]} : d >= size[1] /\ d >= size[2]

\* the call is returning a file name
Returning == pc \in {"finally", "returned"} /\ filename # ""

\* C12: the file name a composition returns (and has saved under) is the
\* set's name as its files spell it, "_", the mode's suffix and, if and only
\* if some map of the mode's subset declares a size, "_" and the bucket of
\* the larger dimension of the target resolution: 512, 1K, 2K, 4K, 8K for
\* d <= 512, 1024, 2048, 4096, 8192 and <d>px above.
C12_OutputFilename ==
    Returning =>
        /\ filename =
              raw_textures[CurrentKey].texture_set_name \o "_"
                \o Strip(ExtractModeName(CurrentEntry.mode))
                \o (IF \E i \in 1..Len(CurrentMaps) : CurrentMaps[i].data.suffix # ""
                    THEN "_" \o ClaimedBucket(LargerDimension(gen_target))
                    ELSE "")
        /\ \E o \in outputs : o.filename = filename

\* a file name with the bucket of a target that is wider than high
C12_Witness ==
    /\ Returning
    /\ gen_target = <<1024, 256>>
    /\ filename = "Wall_AR_1K"

\* the letter slot k of a mode contributes: none when the slot is unset or
\* an earlier slot references the same base type
ClaimedLetter(channels_config, k) ==
    IF \/ channels_config[ChannelNames[k]] = ""
       \/ \E j \in 1..(k - 1) :
             /\ channels_config[ChannelNames[j]] # ""
             /\ RefToken(channels_config[ChannelNames[j]]) =
                   RefToken(channels_config[ChannelNames[k]])
    THEN ""
    ELSE UpperCh(Ch(RefToken(channels_config[ChannelNames[k]]), 1))

ClaimedModeSuffix(mode) ==
    IF Strip(mode.custom_suffix) # "" THEN Strip(mode.custom_suffix)
    ELSE ClaimedLetter(mode.channels, 1) \o ClaimedLetter(mode.channels, 2)
           \o ClaimedLetter(mode.channels, 3) \o ClaimedLetter(mode.channels, 4)

\* C13 (as claimed): the suffix _extract_mode_name gives a mode is its custom
\* suffix when it has one; otherwise the first letters, in upper case and in
\* slot order R, G, B, A, of the distinct base types the mode references,
\* one letter per base type however many slots reference it.
C13_ModeSuffix ==
    \A k \in 1..Len(valid_packing_modes_with_maps) :
        valid_packing_modes_with_maps[k].packing_mode_suffix =
            ClaimedModeSuffix(valid_packing_modes_with_maps[k].mode)

\* the entries _get_valid_modes_for_set gives the set under key
QualifyingEntries(key) ==
    GetValidModesForSet(raw_textures[key].texture_set_name,
                        raw_textures[key].available_texture_maps,
                        valid_packing_modes)

\* every map of the entry has a readable resolution, a power of two in both
\* dimensions
OwnMapsValid(entry) ==
    \A r \in SubsetResolutions(entry) :
        /\ r # NoneResolution
        /\ \E k \in 0..14 : r[1] = 2^k
        /\ \E k \in 0..14 : r[2] = 2^k

\* the target of an entry with valid maps: the resolution of greatest area
\* under "up", of least area otherwise
OwnTarget(entry) ==
    CHOOSE r \in SubsetResolutions(entry) :
        Area(r) = IF RESIZE_STRATEGY = "up" THEN AreaMax(SubsetResolutions(entry))
                  ELSE AreaMin(SubsetResolutions(entry))

\* the run went through every set, or stopped on something other than a
\* failed write of an output
RunEndedWithoutWriteFailure ==
    \/ pc = "built" /\ set_position > Len(SetOrder)
    \/ pc = "raised" /\ raised # "OSError"

\* C17 (as claimed): a mode with a map of unreadable resolution is invalid for
\* the set and recorded with resolution (0, 0); a mode that is invalid for a
\* set does not keep the set's other modes, or other sets, from being
\* generated: at the end of the run every qualifying mode of every set whose
\* own maps are valid has its output, at its own target resolution.
C17_InvalidModeSkippedAlone ==
    /\ (JustChecked /\ NoneResolution \in SubsetResolutions(CheckedEntry)) =>
          /\ ~is_valid
          /\ target_resolution = <<0, 0>>
          /\ GetOrDefault(invalid_resolution_for_summary,
                          CheckedEntry.mode.mode_name, <<>>) = <<0, 0>>
    /\ RunEndedWithoutWriteFailure =>
          \A key \in DOMAIN raw_textures :
            \A k \in 1..Len(QualifyingEntries(key)) :
              IF OwnMapsValid(QualifyingEntries(key)[k])
              THEN \E o \in outputs :
                     /\ o.filename = GeneratedFilename(QualifyingEntries(key)[k],
                                         OwnTarget(QualifyingEntries(key)[k]))
                     /\ o.size = OwnTarget(QualifyingEntries(key)[k])
              ELSE NoneResolution \in SubsetResolutions(QualifyingEntries(key)[k]) =>
                     \A o \in outputs :
                       \A t \in BucketSizes :
                         o.filename # GeneratedFilename(QualifyingEntries(key)[k], t)

(***************************************************************************)
(* Claims about the set-up of a run                                        *)
(***************************************************************************)
\* a channel mapping of a named mode that is missing, malformed, unknown or
\* ambiguous
MappingError(modes) ==
    \E i \in { j \in 1..Len(modes) : Strip(modes[j].mode_name) # "" } :
      \E c \in {"R", "G", "B", "A"} :
        \/ modes[i].channels[c] = "" /\ c # "A"
        \/ modes[i].channels[c] # "" /\ ~WellFormedRef(modes[i].channels[c])
        \/ /\ c = "A"
           /\ modes[i].channels[c] # ""
           /\ RefKind(modes[i].channels[c]) = "RGB"
           /\ RefComponent(modes[i].channels[c]) = ""

\* a configuration error: an unsafe folder name, an invalid export extension,
\* an alpha slot with an extension that has no alpha, or a mapping error
ConfigurationError ==
    \/ ValidateConfigExits(BACKUP_FOLDER_NAME, TARGET_FOLDER_NAME, FILE_TYPE, config_modes)
    \/ MappingError(config_modes)

\* every file of the input folder is where it was
SourcesInPlace ==
    \A i \in 1..Len(folder_files) : JoinPath(InputFolder, folder_files[i]) \in DOMAIN disk

\* C18 (as claimed): a run with a configuration error is terminated before
\* any input file is listed, any directory created, any output saved or any
\* source moved; and a run is terminated by nothing but a configuration
\* error or an empty input folder.
C18_OnlyConfigurationErrorsAreFatal ==
    /\ ConfigurationError =>
          /\ pc \in {"start", "config", "exit"}
          /\ ~files_listed
          /\ created_directories = {}
          /\ outputs = {}
          /\ SourcesInPlace
    /\ pc = "exit" => ConfigurationError \/ folder_files = <<>>
    /\ pc = "raised" => raised = "OSError"

\* the files of the folder whose name matches no texture type
UntypedFiles ==
    { folder_files[i] :
        i \in { j \in 1..Len(folder_files) : ~ClaimedInfoOf[folder_files[j]].typed } }

\* the fallback set name of an untyped file: its name without the extension
\* and without its last '_'-delimited token
ClaimedFallbackName(file) ==
    IF LastIndexIn("_", SplitExtRoot(file)) = 0 THEN SplitExtRoot(file)
    ELSE SubSeq(SplitExtRoot(file), 1, LastIndexIn("_", SplitExtRoot(file)) - 1)

\* the files whose set, by type match or by fallback, is the one named
FilesGroupedUnder(set_name_lower) ==
    { folder_files[i] :
        i \in { j \in 1..Len(folder_files) :
                  Lower(IF ClaimedInfoOf[folder_files[j]].typed
                        THEN ClaimedInfoOf[folder_files[j]].set
                        ELSE ClaimedFallbackName(folder_files[j])) = set_name_lower } }

\* the files have been listed and selected
SetupOver == files_listed /\ pc # "exit"

\* C19 (as claimed): an untyped file is grouped under its fallback set name,
\* is in the skipped-sets report only under that name, is never in the
\* selection, never among a set's available maps, never opened and never
\* moved; a set whose files are all untyped is reported skipped and never
\* becomes a texture set.
C19_UntypedFilesOnlyReported ==
    SetupOver =>
      \A f \in UntypedFiles :
        /\ f \notin selection_paths_map
        /\ \A name \in DOMAIN pre_skipped_texture_sets_summary :
              f \in pre_skipped_texture_sets_summary[name]
                => Lower(name) = Lower(ClaimedFallbackName(f))
        /\ \A key \in DOMAIN raw_textures :
              \A type \in DOMAIN raw_textures[key].available_texture_maps :
                Basename(raw_textures[key].available_texture_maps[type].file_path) # f
        /\ \A h \in 1..Len(heap) : heap[h].path # JoinPath(InputFolder, f)
        /\ JoinPath(InputFolder, f) \in DOMAIN disk
        /\ FilesGroupedUnder(Lower(ClaimedFallbackName(f))) \subseteq UntypedFiles =>
              /\ Lower(ClaimedFallbackName(f)) \notin DOMAIN raw_textures
              /\ valid_packing_modes # <<>> =>
                    \E name \in DOMAIN pre_skipped_texture_sets_summary :
                        /\ Lower(name) = Lower(ClaimedFallbackName(f))
                        /\ f \in pre_skipped_texture_sets_summary[name]

(***************************************************************************)
(* Claims about the slots of the returned modes                            *)
(***************************************************************************)
\* C20 (as claimed): in the modes _validate_packing_modes returns, a slot
\* that references a single-channel type carries nothing after the type, a
\* slot that references a three-channel type carries exactly one component
\* of r, g, b, and no mode has a blank name.
C20_SlotsFullyResolved ==
    pc = "validated" =>
      \A k \in 1..Len(valid_packing_modes) :
        /\ Strip(valid_packing_modes[k].mode_name) # ""
        /\ \A c \in {"R", "G", "B", "A"} :
              valid_packing_modes[k].channels[c] # "" =>
                /\ RefKind(valid_packing_modes[k].channels[c]) = "G" =>
                      RefTail(valid_packing_modes[k].channels[c]) = ""
                /\ RefKind(valid_packing_modes[k].channels[c]) = "RGB" =>
                      RefComponent(valid_packing_modes[k].channels[c]) \in {"r", "g", "b"}

(***************************************************************************)
(* Claims about the channels of a composition                              *)
(***************************************************************************)
\* the slots a mode defines, in the order R, G, B, A
DefinedSlots(channels_config) ==
    { c \in {"R", "G", "B", "A"} : channels_config[c] # "" }

\* C21 (as claimed): whatever the image mode of a loaded source, every slot
\* of the mode gets a single-channel image from _extract_channel, and the
\* merged image has one band per defined slot: R, G, B, and A if and only if
\* the mode defines an A slot.
C21_OneChannelPerSlot ==
    /\ pc = "merge" =>
          /\ Len(channel_images) = Cardinality(DefinedSlots(CurrentEntry.mode.channels))
          /\ \A k \in 1..Len(channel_images) :
                /\ channel_images[k] # 0
                /\ heap[channel_images[k]].mode = "L"
    /\ pc = "save" =>
          DOMAIN heap[packed_texture].px = DefinedSlots(CurrentEntry.mode.channels)

(***************************************************************************)
(* Claims about the entries of a set                                       *)
(***************************************************************************)
\* the per-set loop is at a set and holds its entries
AtSet == pc \in {"check", "ready"}

\* the base types the slots of a mode reference
ReferencedBaseTypes(channels_config) ==
    { RefToken(channels_config[c]) : c \in DefinedSlots(channels_config) }

\* C22: every entry _get_valid_modes_for_set returns holds at least two
\* maps, of distinct base types, each the set's own map of that type; a mode
\* whose slots all reference one base type gets no entry.
C22_AtLeastTwoBaseTypes ==
    AtSet =>
      \A k \in 1..Len(valid_packing_modes_with_maps) :
        LET maps == valid_packing_modes_with_maps[k].texture_maps_for_mode IN
        /\ Len(maps) >= 2
        /\ \A i, j \in 1..Len(maps) : i # j => maps[i].texture_type # maps[j].texture_type
        /\ \A i \in 1..Len(maps) :
              /\ maps[i].texture_type \in DOMAIN raw_textures[CurrentKey].available_texture_maps
              /\ maps[i].data =
                    raw_textures[CurrentKey].available_texture_maps[maps[i].texture_type]
        /\ Cardinality(ReferencedBaseTypes(valid_packing_modes_with_maps[k].mode.channels)) >= 2

\* the set has a normal map, the first configured mode references Normal
\* only, and the set's only entry is that of the second mode
C22_Witness ==
    /\ AtSet
    /\ ReferencedBaseTypes(valid_packing_modes[1].channels) = {"normal"}
    /\ "normal" \in DOMAIN raw_textures[CurrentKey].available_texture_maps
    /\ Len(valid_packing_modes_with_maps) = 1
    /\ valid_packing_modes_with_maps[1].mode.mode_name = "NR"

(***************************************************************************)
(* Claims about the diagnostics of the mode loop                           *)
(***************************************************************************)
\* the map's resolution is not the target the mode was given
ToBeScaled(map, target) == map.data.resolution # target

\* the size the map's name declares is not the bucket of its resolution
ClaimedSuffixMismatch(map) ==
    /\ map.data.resolution # NoneResolution
    /\ map.data.suffix # ""
    /\ Lower(map.data.suffix) # Lower(ClaimedBucket(LargerDimension(map.data.resolution)))

\* C23: a map to be scaled and a map whose declared size disagrees with its
\* resolution are recorded as diagnostics and nothing else: whatever the
\* diagnostics, every qualifying mode whose maps all have a readable
\* power-of-two resolution is in the ready list of its set, with a target
\* among its resolutions, of the area the strategy asks for.
C23_DiagnosticsOnly ==
    /\ (JustChecked /\ is_valid) =>
          \A i \in 1..Len(CheckedEntry.texture_maps_for_mode) :
            /\ ToBeScaled(CheckedEntry.texture_maps_for_mode[i], target_resolution) <=>
                  \E t \in 1..Len(textures_to_scale) :
                      textures_to_scale[t].filename =
                          CheckedEntry.texture_maps_for_mode[i].data.filename
            /\ ClaimedSuffixMismatch(CheckedEntry.texture_maps_for_mode[i]) =>
                  \E t \in 1..Len(suffix_mismatch_buffer) :
                      suffix_mismatch_buffer[t].filename =
                          CheckedEntry.texture_maps_for_mode[i].data.filename
    /\ pc = "ready" =>
          \A k \in 1..Len(QualifyingEntries(CurrentKey)) :
            OwnMapsValid(QualifyingEntries(CurrentKey)[k]) =>
              /\ \E r \in 1..Len(valid_packing_modes_with_maps) :
                    valid_packing_modes_with_maps[r] = QualifyingEntries(CurrentKey)[k]
              /\ GetOrDefault(expected_texture_resolution,
                              QualifyingEntries(CurrentKey)[k].mode.mode_name, <<>>)
                    \in SubsetResolutions(QualifyingEntries(CurrentKey)[k])
              /\ Area(GetOrDefault(expected_texture_resolution,
                                   QualifyingEntries(CurrentKey)[k].mode.mode_name, <<>>)) =
                    Area(OwnTarget(QualifyingEntries(CurrentKey)[k]))

\* a ready mode with a map to scale and a map whose name declares another size
C23_Witness ==
    /\ pc = "ready"
    /\ \E r \in 1..Len(valid_packing_modes_with_maps) :
          /\ \E i \in 1..Len(valid_packing_modes_with_maps[r].texture_maps_for_mode) :
                ToBeScaled(valid_packing_modes_with_maps[r].texture_maps_for_mode[i],
                           expected_texture_resolution[
                               valid_packing_modes_with_maps[r].mode.mode_name])
          /\ \E i \in 1..Len(valid_packing_modes_with_maps[r].texture_maps_for_mode) :
                ClaimedSuffixMismatch(valid_packing_modes_with_maps[r].texture_maps_for_mode[i])
    /\ suffix_mismatch_buffer # <<>>

(***************************************************************************)
(* Claims about the backup of the used maps                                *)
(***************************************************************************)
\* the positions of the ready modes of the set that are still to be
\* composed, the one being composed included until its maps are moved
StillToCompose ==
    CASE pc \in {"load", "fill", "collect", "merge", "save", "move"} ->
           gen_position..Len(valid_packing_modes_with_maps)
      [] pc = "ready" -> gen_position..Len(valid_packing_modes_with_maps)
      [] pc \in {"finally", "returned", "raised"} ->
           (gen_position + 1)..Len(valid_packing_modes_with_maps)
      [] OTHER -> {}

\* C24 (as claimed): with a backup folder, a source map stays at its path
\* until every ready mode of the set that consumes it has been composed, so
\* that every one of them reads the map itself.
C24_SharedMapNotMovedEarly ==
    backup_directory # "" =>
      \A k \in StillToCompose :
        \A i \in 1..Len(valid_packing_modes_with_maps[k].texture_maps_for_mode) :
          PathExists(disk,
              valid_packing_modes_with_maps[k].texture_maps_for_mode[i].data.file_path)

(***************************************************************************)
(* Claims about the report of a run                                        *)
(***************************************************************************)
RunDone == pc = "done"

\* the names of the texture sets found in the folder, lower-cased
SetsFound ==
    { Lower(ClaimedInfoOf[folder_files[i]].set) :
        i \in { j \in 1..Len(folder_files) : ClaimedInfoOf[folder_files[j]].typed } }

HasOutput(set_name_lower) ==
    \E o \in outputs : StartsWith(Lower(o.filename), set_name_lower \o "_")

ReportedSkippedOrInvalid(set_name_lower) ==
    \E l \in log_lines :
       /\ Lower(l.texture_set) = set_name_lower
       /\ l.kind \in {"Skipped", "Invalid resolution", "Corrupted", "Skipped set"}

\* C25 (as claimed): at the end of a run that does not abort, every texture
\* set found in the folder has an output or is named in the report as skipped
\* or invalid, by a line of its per-mode summary or by the final list of the
\* sets missing required maps.
C25_EverySetAccountedFor ==
    RunDone =>
      \A set_name \in SetsFound : HasOutput(set_name) \/ ReportedSkippedOrInvalid(set_name)

(***************************************************************************)
(* Claims about the resize strategy                                        *)
(***************************************************************************)
\* a strategy that the validation of the configuration takes, without its
\* warning, to mean "up"
AcceptedAsUp(resize_strategy) ==
    ~UnknownResizeStrategy(resize_strategy) /\ Lower(resize_strategy) = "up"

\* the check has just accepted a subset whose resolutions differ in area
JustPickedAmongAreas ==
    /\ JustChecked
    /\ is_valid
    /\ AreaMin(SubsetResolutions(CheckedEntry)) < AreaMax(SubsetResolutions(CheckedEntry))

\* C26 (as claimed): a RESIZE_STRATEGY that the validation accepts without
\* its warning as meaning "up", in whatever letter case, makes the check
\* choose a resolution of greatest area; every other value makes it choose
\* one of least area.
C26_AcceptedUpChoosesMaximum ==
    JustPickedAmongAreas =>
      Area(target_resolution) =
        IF AcceptedAsUp(RESIZE_STRATEGY) THEN AreaMax(SubsetResolutions(CheckedEntry))
        ELSE AreaMin(SubsetResolutions(CheckedEntry))

(***************************************************************************)
(* Claims about cleanup                                                    *)
(***************************************************************************)
\* the files of the folder that are no longer at their path
RemovedSources ==
    { folder_files[i] :
        i \in { j \in 1..Len(folder_files) :
                  ~PathExists(disk, JoinPath(InputFolder, folder_files[j])) } }

\* C27 (as claimed): with DELETE_USED, cleanup removes a source file only if
\* an output was generated from it; in particular every removed file is a
\* typed map of a set that has at least one output, and the maps of a set
\* whose modes were all skipped stay in place.
C27_OnlyConsumedSourcesDeleted ==
    (RunDone /\ DELETE_USED) =>
      \A file \in RemovedSources :
         /\ ClaimedInfoOf[file].typed
         /\ HasOutput(Lower(ClaimedInfoOf[file].set))

(***************************************************************************)
(* Claims about pre-selection and the coverage rule                        *)
(***************************************************************************)
SetsBuilt == pc = "built" /\ valid_packing_modes # <<>>

\* the sets pre-selection has found, by their lower-cased names
PreselectSetNames ==
    { From(texture_id, 3) :
        texture_id \in TextureSetIds(folder_files,
                          KeptFiles(folder_files, PackedTexturesSuffixes(valid_packing_modes))) }

\* the types pre-selection has found for a set
FullTypes(set_name_lower) ==
    EntryTypes(folder_files,
               KeptFiles(folder_files, PackedTexturesSuffixes(valid_packing_modes)),
               ".:" \o set_name_lower)

\* the types of the set as it is built from the narrowed selection
NarrowedTypes(set_name_lower) ==
    IF set_name_lower \in DOMAIN raw_textures
    THEN DOMAIN raw_textures[set_name_lower].available_texture_maps
    ELSE {}

PassesOnFull(mode, set_name_lower) ==
    PreselectRule(RequiredOf(mode), RequiredOf(mode) \cap FullTypes(set_name_lower))

PassesOnNarrowed(mode, set_name_lower) ==
    CoverageRule(RequiredOf(mode), RequiredOf(mode) \cap NarrowedTypes(set_name_lower))

\* C28: for every set and every valid mode, the mode passes the coverage rule
\* of _get_valid_modes_for_set on the types of the set built from the narrowed
\* selection exactly when it passes the rule of pre-selection on all the
\* types found for the set, and then with the same present types.
C28_NarrowingKeepsApplicability ==
    SetsBuilt =>
      \A set_name \in PreselectSetNames \cup DOMAIN raw_textures :
        \A i \in 1..Len(valid_packing_modes) :
          LET mode == valid_packing_modes[i] IN
          /\ PassesOnNarrowed(mode, set_name) <=> PassesOnFull(mode, set_name)
          /\ PassesOnFull(mode, set_name) =>
               RequiredOf(mode) \cap NarrowedTypes(set_name)
                 = RequiredOf(mode) \cap FullTypes(set_name)

\* a set that lost a type to the narrowing, with a mode that passes and, in
\* the same run, a set some mode does not pass for
C28_Witness ==
    /\ SetsBuilt
    /\ \E set_name \in DOMAIN raw_textures :
         /\ NarrowedTypes(set_name) # FullTypes(set_name)
         /\ NarrowedTypes(set_name) # {}
         /\ \E i \in 1..Len(valid_packing_modes) :
               PassesOnNarrowed(valid_packing_modes[i], set_name)
    /\ \E set_name \in PreselectSetNames : \E i \in 1..Len(valid_packing_modes) :
         ~PassesOnFull(valid_packing_modes[i], set_name)

(***************************************************************************)
(* Claims about the flags of the texture sets                              *)
(***************************************************************************)
\* the sets whose iteration of the per-set loop has ended without exception
FinishedSets ==
    IF raw_textures = EmptyDict THEN {}
    ELSE { SetOrder[k] : k \in { j \in 1..Len(SetOrder) : j < set_position } }

\* the types of a mode that the set under key has
PresentIn(mode, key) ==
    RequiredOf(mode) \cap DOMAIN raw_textures[key].available_texture_maps

\* the mode qualifies for the set: the coverage rule and two maps
QualifiesFor(mode, key) ==
    /\ CoverageRule(RequiredOf(mode), PresentIn(mode, key))
    /\ Cardinality(PresentIn(mode, key)) >= 2

\* the resolution check rejects the mode's maps: one is unreadable, or one of
\* least area is not a power of two in both dimensions
RejectedForResolution(mode, key) ==
    LET resolutions == { raw_textures[key].available_texture_maps[t].resolution :
                           t \in PresentIn(mode, key) }
    IN  \/ NoneResolution \in resolutions
        \/ \E r \in resolutions :
              Area(r) = AreaMin(resolutions) /\ ~BothDimensionsPowerOfTwo(r)

\* the set has qualifying modes and the resolution check rejects every one
AllModesRejectedForResolution(key) ==
    /\ \E i \in 1..Len(valid_packing_modes) : QualifiesFor(valid_packing_modes[i], key)
    /\ \A i \in 1..Len(valid_packing_modes) :
          QualifiesFor(valid_packing_modes[i], key)
            => RejectedForResolution(valid_packing_modes[i], key)

\* the flags of the sets, as a state predicate
FlagsRight ==
    /\ \A key \in DOMAIN raw_textures :
          raw_textures[key].processed => raw_textures[key].completed
    /\ \A key \in FinishedSets :
          /\ raw_textures[key].completed
          /\ raw_textures[key].processed <=>
               (HasOutput(key) \/ AllModesRejectedForResolution(key))

\* a step resets no flag and removes no set
FlagsKept ==
    \A key \in DOMAIN raw_textures :
       /\ key \in DOMAIN raw_textures'
       /\ raw_textures[key].completed => raw_textures'[key].completed
       /\ raw_textures[key].processed => raw_textures'[key].processed

CreatedLinesReported == { l \in log_lines : l.kind = "Created" }

\* C30 (as claimed): every 'Created' line names a file that was written: an
\* output was saved under the line's name, that is the set's name, the mode's
\* suffix, the resolution-bucket suffix when the output has one, and the
\* export extension.
C30_CreatedNamesWrittenFile ==
    \A l \in CreatedLinesReported :
       \E o \in outputs : l.filename = o.filename \o "." \o export_extension

====
